---- MODULE Spec2Model ----
(***************************************************************************)
(* Model of the conversational query pipeline of GarnettAI:                *)
(*   - the RateMyProfessor review cache (rmpCache) of                      *)
(*     src/garnett_frontend/src/app/api/answer_with_rag/route.js,          *)
(*   - the course extractor, the existence check and the two answer paths  *)
(*     (answerWithRag, answerWithRagStreaming) behind POST,                *)
(*   - the chat client of src/garnett_frontend/src/app/page.tsx that reads *)
(*     the server-sent events.                                             *)
(* Text is a sequence of one-character strings; a JS Map is the sequence   *)
(* of its entries in insertion order.                                      *)
(***************************************************************************)
EXTENDS Integers, Sequences, FiniteSets, TLC

VARIABLES
    rmpCache,   \* the Map rmpCache: entries [id, data, timestamp] in insertion order
    now,        \* Date.now(), in ticks
    lruOrder,   \* the cached ids by their last put or get hit, the most recent last
    lastGet,    \* the last get with no put after it, and whether it repeated the get before
    lastOp,     \* the cache operation that produced this state: what it returned, the size
                \* before it and the age the entry of its id had (-1: absent)
    pc,         \* where the request handler (POST and the answer function) stands
    req,        \* the request body: query, sessionContext, useStreaming
    coursesToUse,
    statTask,   \* per course of coursesToUse: the fetchCourseInfo call
    profTask,   \* per course of coursesToUse: the fetchProfInfo call
    events,     \* the server-sent events enqueued on the stream, in order
    http,       \* the HTTP response of POST
    closed,     \* controller.close() was called
    fullAnswer, \* the accumulator of the streaming loop
    modelDeltas,\* what the model stream has yielded so far
    prompts,    \* the prompts sent to the model in this turn
    calls,      \* how often this turn called each collaborator
    turn,       \* number of requests handled
    heldContext,\* the session context the caller holds between turns
    raised,     \* the awaited operations of this turn that raised an exception
    lastTurn,   \* the turn before: what was asked, how the collaborators behaved, the outcome
    cpc,        \* where the client's handleSubmit stands
    wire,       \* what the server wrote and the client has not read yet
    lines,      \* the lines of the current read the loop has not visited yet
    messages,   \* the conversation shown
    sessionContext,       \* the client's session context
    accumulatedResponse,
    streamingResponse,
    abortController,      \* the state abortController is set
    aborted,    \* the signal of the request in flight is aborted
    isLoading,
    isStreaming,
    submits,    \* number of submitted messages
    sent,       \* the events the server emits for the request in flight
    processed,  \* the events the client's switch has handled in this turn
    atSubmit,   \* the conversation length and the session context when the turn began
    stoppedEarly, \* the user stopped this turn before a complete event was handled
    scrapePc,      \* where one call of scrapeRmpProfessors stands
    scrapeUrls,    \* its argument urls
    failingIds,    \* the professor ids whose request or page fails during the call
    cacheHits,     \* what its cache pass found
    urlsToScrape,
    scrapeResults, \* its object results
    chunkIndex,    \* the index i of the chunk being processed
    inFlight,      \* the positions of urlsToScrape whose request is in flight
    chunkResults,  \* what the settled requests of the chunk returned
    invocations    \* number of calls of scrapeRmpProfessors

cacheVars == <<rmpCache, now, lastOp, lruOrder, lastGet>>

turnVars ==
    <<pc, req, coursesToUse, statTask, profTask, events, http, closed,
      fullAnswer, modelDeltas, prompts, calls, turn, heldContext, raised, lastTurn>>

clientVars ==
    <<cpc, wire, lines, messages, sessionContext, accumulatedResponse, streamingResponse,
      abortController, aborted, isLoading, isStreaming, submits, sent, processed,
      atSubmit, stoppedEarly>>

scrapeVars ==
    <<scrapePc, scrapeUrls, failingIds, cacheHits, urlsToScrape, scrapeResults, chunkIndex,
      inFlight, chunkResults, invocations>>

vars == <<cacheVars, turnVars, clientVars, scrapeVars>>

Null == "null"

\* ------------------------------------------------------------------ bounds
\* MAX_CACHE_SIZE (1500 in the source) and CACHE_DURATION (24 h in ms in the
\* source) are scaled down; MaxTime caps the clock.
MAX_CACHE_SIZE == 3

CACHE_DURATION == 1

MaxTime == 2

\* Requests per behaviour, and deltas per model stream.
MaxTurns == 2

MaxDeltas == 2

\* Messages the user submits per behaviour.
MaxSubmits == 2

\* Words per text handed to the extractor.
MaxWords == 3

\* Calls of scrapeRmpProfessors per behaviour.
MaxInvocations == 2

\* const CONCURRENCY_LIMIT = 3
CONCURRENCY_LIMIT == 3

ProfIds == {"p1", "p2", "p3", "p4"}

\* A scraped record or the error marker {error: e.message}.
Records == {"rec1", "err"}

\* ------------------------------------------------------------------ the Map
RECURSIVE IndexOf(_, _)
IndexOf(m, id) ==
    IF m = <<>> THEN 0
    ELSE IF m[Len(m)].id = id THEN Len(m)
    ELSE IndexOf(SubSeq(m, 1, Len(m) - 1), id)

MapHas(m, id) == IndexOf(m, id) # 0

MapGet(m, id) == m[IndexOf(m, id)]

MapDelete(m, id) ==
    LET i == IndexOf(m, id)
    IN  IF i = 0 THEN m ELSE SubSeq(m, 1, i - 1) \o SubSeq(m, i + 1, Len(m))

\* Map.prototype.set: an existing key keeps its position; a new key is appended.
MapSet(m, id, entry) ==
    LET i == IndexOf(m, id)
    IN  IF i = 0 THEN Append(m, entry) ELSE [m EXCEPT ![i] = entry]

MapKeys(m) == [i \in 1..Len(m) |-> m[i].id]

\* ------------------------------------------------------------------ cache helpers
\* The freshness test with the comparison against CACHE_DURATION dropped.
IsFresh_Always(cached, t) == TRUE

\* Date.now() - cached.timestamp < CACHE_DURATION
IsFresh(cached, t) == t - cached.timestamp < CACHE_DURATION

\* getCachedRmpData whose hit deletes the entry and does not set it again
getCachedRmpData_DropsOnHit(m, profId, t) ==
    IF MapHas(m, profId) /\ IsFresh(MapGet(m, profId), t)
    THEN [cache |-> MapDelete(m, profId), ret |-> MapGet(m, profId).data]
    ELSE [cache |-> MapDelete(m, profId), ret |-> Null]

\* getCachedRmpData without the delete and set of a hit
getCachedRmpData_NoPromote(m, profId, t) ==
    IF MapHas(m, profId) /\ IsFresh(MapGet(m, profId), t)
    THEN [cache |-> m, ret |-> MapGet(m, profId).data]
    ELSE [cache |-> MapDelete(m, profId), ret |-> Null]

\* getCachedRmpData that leaves an expired entry where it is
getCachedRmpData_KeepsExpired(m, profId, t) ==
    IF MapHas(m, profId) /\ IsFresh(MapGet(m, profId), t)
    THEN LET cached == MapGet(m, profId)
         IN  [cache |-> MapSet(MapDelete(m, profId), profId, cached), ret |-> cached.data]
    ELSE [cache |-> m, ret |-> Null]

\* getCachedRmpData: [cache |-> the Map afterwards, ret |-> cached.data or null]
getCachedRmpData(m, profId, t) ==
    IF MapHas(m, profId) /\ IsFresh(MapGet(m, profId), t)
    THEN LET cached == MapGet(m, profId)
         IN  [cache |-> MapSet(MapDelete(m, profId), profId, cached), ret |-> cached.data]
    ELSE IF MapHas(m, profId)
    THEN [cache |-> MapDelete(m, profId), ret |-> Null]
    ELSE [cache |-> m, ret |-> Null]

\* The size test of setCachedRmpData with the comparison weakened.
EvictNeeded_Late(m) == Len(m) > MAX_CACHE_SIZE

EvictNeeded(m) == Len(m) >= MAX_CACHE_SIZE

\* setCachedRmpData that leaves the entry of an id already cached as it is
setCachedRmpData_SkipsExisting(m, profId, data, t) ==
    IF MapHas(m, profId)
    THEN m
    ELSE LET afterEvict == IF EvictNeeded(m) THEN MapDelete(m, m[1].id) ELSE m
         IN  MapSet(afterEvict, profId, [id |-> profId, data |-> data, timestamp |-> t])

\* setCachedRmpData: the Map afterwards
setCachedRmpData(m, profId, data, t) ==
    LET afterEvict == IF EvictNeeded(m) THEN MapDelete(m, m[1].id) ELSE m
    IN  MapSet(afterEvict, profId, [id |-> profId, data |-> data, timestamp |-> t])

\* getCacheStats: size, and the entries counted valid and expired
getCacheStats(m, t) ==
    [size |-> Len(m),
     valid |-> Cardinality({i \in 1..Len(m) : ~(t - m[i].timestamp > CACHE_DURATION)}),
     expired |-> Cardinality({i \in 1..Len(m) : t - m[i].timestamp > CACHE_DURATION})]

\* ------------------------------------------------------------------ text
LowerLetters ==
    <<"a", "b", "c", "d", "e", "f", "g", "h", "i", "j", "k", "l", "m",
      "n", "o", "p", "q", "r", "s", "t", "u", "v", "w", "x", "y", "z">>

UpperLetters ==
    <<"A", "B", "C", "D", "E", "F", "G", "H", "I", "J", "K", "L", "M",
      "N", "O", "P", "Q", "R", "S", "T", "U", "V", "W", "X", "Y", "Z">>

DigitChars == {"0", "1", "2", "3", "4", "5", "6", "7", "8", "9"}

IsUpperLetter(ch) == \E i \in 1..26 : UpperLetters[i] = ch

IsLowerLetter(ch) == \E i \in 1..26 : LowerLetters[i] = ch

\* [\s-]
IsSeparator(ch) == ch \in {" ", "\t", "\n", "-"}

toUpperCaseChar(ch) ==
    IF IsLowerLetter(ch) THEN UpperLetters[CHOOSE i \in 1..26 : LowerLetters[i] = ch] ELSE ch

toLowerCaseChar(ch) ==
    IF IsUpperLetter(ch) THEN LowerLetters[CHOOSE i \in 1..26 : UpperLetters[i] = ch] ELSE ch

toUpperCase(s) == [i \in 1..Len(s) |-> toUpperCaseChar(s[i])]

toLowerCase(s) == [i \in 1..Len(s) |-> toLowerCaseChar(s[i])]

\* String.prototype.replace(' ', ''): only the first space is removed.
replaceFirstSpace(s) ==
    IF \E i \in 1..Len(s) : s[i] = " "
    THEN LET i == CHOOSE k \in 1..Len(s) : s[k] = " " /\ \A j \in 1..(k - 1) : s[j] # " "
         IN  SubSeq(s, 1, i - 1) \o SubSeq(s, i + 1, Len(s))
    ELSE s

RECURSIVE Flatten(_)
Flatten(ss) == IF ss = <<>> THEN <<>> ELSE Head(ss) \o Flatten(Tail(ss))

\* Array.prototype.join(', ')
RECURSIVE JoinComma(_)
JoinComma(ss) ==
    IF ss = <<>> THEN <<>>
    ELSE IF Len(ss) = 1 THEN ss[1]
    ELSE ss[1] \o <<",", " ">> \o JoinComma(Tail(ss))

Range(s) == {s[i] : i \in 1..Len(s)}

\* [...new Set(xs)]: duplicates dropped, first occurrence kept
RECURSIVE Unique(_)
Unique(xs) ==
    IF xs = <<>> THEN <<>>
    ELSE LET init == Unique(SubSeq(xs, 1, Len(xs) - 1))
             x == xs[Len(xs)]
         IN  IF x \in Range(init) THEN init ELSE Append(init, x)

\* ------------------------------------------------------------------ extractor
\* /([A-Z]{2,4})[\s-]?([0-9]{3})/ tried at position i of s: the length of the
\* match and its two groups, or len 0.  {2,4} is greedy and backtracks.
DigitsAt(s, i) == i + 2 <= Len(s) /\ \A j \in i..(i + 2) : s[j] \in DigitChars

LettersAt(s, i, k) == i + k - 1 <= Len(s) /\ \A j \in i..(i + k - 1) : IsUpperLetter(s[j])

TailMatches(s, j) ==
    \/ j <= Len(s) /\ IsSeparator(s[j]) /\ DigitsAt(s, j + 1)
    \/ DigitsAt(s, j)

MatchAt(s, i) ==
    LET ks == {k \in 2..4 : LettersAt(s, i, k) /\ TailMatches(s, i + k)}
    IN  IF ks = {} THEN [len |-> 0, g1 |-> <<>>, g2 |-> <<>>]
        ELSE LET k == CHOOSE x \in ks : \A y \in ks : y <= x
                 d == IF i + k <= Len(s) /\ IsSeparator(s[i + k]) /\ DigitsAt(s, i + k + 1)
                      THEN i + k + 1 ELSE i + k
             IN  [len |-> d + 3 - i, g1 |-> SubSeq(s, i, i + k - 1), g2 |-> SubSeq(s, d, d + 2)]

\* matchAll with every search resuming one character after the start of the last match
RECURSIVE MatchAllFrom_Overlapping(_, _)
MatchAllFrom_Overlapping(s, i) ==
    IF i > Len(s) THEN <<>>
    ELSE LET m == MatchAt(s, i)
         IN  IF m.len = 0 THEN MatchAllFrom_Overlapping(s, i + 1)
             ELSE <<m.g1 \o <<" ">> \o m.g2>> \o MatchAllFrom_Overlapping(s, i + 1)

\* matchAll with the g flag: leftmost matches, each search resuming after the last match
RECURSIVE MatchAllFrom(_, _)
MatchAllFrom(s, i) ==
    IF i > Len(s) THEN <<>>
    ELSE LET m == MatchAt(s, i)
         IN  IF m.len = 0 THEN MatchAllFrom(s, i + 1)
             ELSE <<m.g1 \o <<" ">> \o m.g2>> \o MatchAllFrom(s, i + m.len)

extractCoursesAndProfessors(query) == Unique(MatchAllFrom(toUpperCase(query), 1))

\* ------------------------------------------------------------------ the world
\* The course codes of the examples, the tables the database holds, the
\* instructors of each table and their review-page links.
CSCE221 == <<"C", "S", "C", "E", " ", "2", "2", "1">>

MATH151 == <<"M", "A", "T", "H", " ", "1", "5", "1">>

FAKE999 == <<"F", "A", "K", "E", " ", "9", "9", "9">>

ExistingTables ==
    {<<"c", "s", "c", "e", "2", "2", "1">>, <<"m", "a", "t", "h", "1", "5", "1">>}

\* The instructor of each row of the grouped query (one row per instructor and term)
PerTermRows(table) ==
    IF table = <<"c", "s", "c", "e", "2", "2", "1">> THEN <<"i1", "i2", "i1">>
    ELSE IF table = <<"m", "a", "t", "h", "1", "5", "1">> THEN <<"i2">>
    ELSE <<>>

\* professor.rmp_link, as the path segments of the URL
RmpLinkOf(instructor) ==
    IF instructor = "i1" THEN <<"professor", "p1">> ELSE <<"professor", "p2">>

\* What a caller may send as query
Queries ==
    { <<>>,
      <<"h", "i">>,
      <<"c", "s", "c", "e", "2", "2", "1">>,
      <<"F", "A", "K", "E", "9", "9", "9">>,
      <<"C", "S", "C", "E", " ", "2", "2", "1", " ", "F", "A", "K", "E", "9", "9", "9">>,
      <<"c", "s", "c", "e", "-", "2", "2", "1", " ", "M", "A", "T", "H", " ", "1", "5", "1">> }

\* null, as the value of currentCourse
NoCourse == <<>>

EmptyContext == [currentCourse |-> NoCourse, activeCourses |-> <<>>]

\* A context no turn returned, which a caller may still send
ForeignContext == [currentCourse |-> FAKE999, activeCourses |-> <<FAKE999, MATH151>>]

\* What the model stream may yield as delta.content ('' when absent)
Deltas == {<<>>, <<"a">>, <<"b">>}

\* ------------------------------------------------------------------ messages
AskCourseAnswer == [kind |-> "askCourse", arg |-> <<>>]

NoDataAnswer(courseString) == [kind |-> "noData", arg |-> courseString]

PartialAnswer(invalidString) == [kind |-> "partial", arg |-> invalidString]

TextAnswer(text) == [kind |-> "text", arg |-> text]

\* "Whoop! We're having trouble processing your request. ..."
ApologyAnswer == [kind |-> "apology", arg |-> <<>>]

\* error.message || 'Internal Server Error'
RawError == [kind |-> "raw", arg |-> <<>>]

MissingQuery == [kind |-> "missingQuery", arg |-> <<>>]

NoAnswer == [kind |-> "none", arg |-> <<>>]

StatusEvent(p) ==
    [type |-> "status", progress |-> p, content |-> <<>>, answer |-> NoAnswer,
     sessionContext |-> EmptyContext]

ChunkEvent(c) ==
    [type |-> "chunk", progress |-> 0, content |-> c, answer |-> NoAnswer,
     sessionContext |-> EmptyContext]

CompleteEvent(a, ctx) ==
    [type |-> "complete", progress |-> 0, content |-> <<>>, answer |-> a,
     sessionContext |-> ctx]

ErrorEvent(e) ==
    [type |-> "error", progress |-> 0, content |-> <<>>, answer |-> e,
     sessionContext |-> EmptyContext]

HttpNone == [status |-> 0, kind |-> "none", answer |-> NoAnswer, sessionContext |-> EmptyContext]

HttpJson(a, ctx) == [status |-> 200, kind |-> "json", answer |-> a, sessionContext |-> ctx]

HttpStream == [status |-> 200, kind |-> "stream", answer |-> NoAnswer, sessionContext |-> EmptyContext]

HttpError(code, e) == [status |-> code, kind |-> "error", answer |-> e, sessionContext |-> EmptyContext]

NoRequest == [query |-> <<>>, sessionContext |-> EmptyContext, useStreaming |-> FALSE]

\* No turn before
NoTurn == [useStreaming |-> FALSE]

NoCalls ==
    [exists |-> 0, stats |-> 0, prof |-> 0, scrape |-> 0, cacheGet |-> 0,
     cachePut |-> 0, model |-> 0]

\* ------------------------------------------------------------------ SpecCache
NoGet == [id |-> Null, ret |-> Null, repeat |-> FALSE]

InitCache ==
    /\ rmpCache = <<>>
    /\ now = 0
    /\ lastOp = [op |-> "none", id |-> Null, ret |-> Null, sizeBefore |-> 0, age |-> -1]
    /\ lruOrder = <<>>
    /\ lastGet = NoGet

\* The age of the entry of id at time t, -1 when there is none
AgeOf(m, id, t) == IF MapHas(m, id) THEN t - MapGet(m, id).timestamp ELSE -1

\* The ids of order still in the Map m, with id made the most recent when touched
Ranked(order, m, id, touched) ==
    LET moved == IF touched THEN Append(SelectSeq(order, LAMBDA x : x # id), id) ELSE order
    IN  SelectSeq(moved, LAMBDA x : MapHas(m, x))

CacheGet(id) ==
    LET r == getCachedRmpData(rmpCache, id, now)
    IN  /\ rmpCache' = r.cache
        /\ lastOp' = [op |-> "get", id |-> id, ret |-> r.ret, sizeBefore |-> Len(rmpCache),
                     age |-> AgeOf(rmpCache, id, now)]
        /\ UNCHANGED now

CachePut(id, data) ==
    /\ rmpCache' = setCachedRmpData(rmpCache, id, data, now)
    /\ lastOp' = [op |-> "put", id |-> id, ret |-> data, sizeBefore |-> Len(rmpCache),
                 age |-> AgeOf(rmpCache, id, now)]
    /\ UNCHANGED now

Tick ==
    /\ now < MaxTime
    /\ now' = now + 1
    /\ lastOp' = [op |-> "tick", id |-> Null, ret |-> Null, sizeBefore |-> Len(rmpCache), age |-> -1]
    /\ UNCHANGED rmpCache

InitTurn ==
    /\ pc = "idle"
    /\ req = NoRequest
    /\ coursesToUse = <<>>
    /\ statTask = <<>>
    /\ profTask = <<>>
    /\ events = <<>>
    /\ http = HttpNone
    /\ closed = FALSE
    /\ fullAnswer = <<>>
    /\ modelDeltas = <<>>
    /\ prompts = <<>>
    /\ calls = NoCalls
    /\ turn = 0
    /\ heldContext = EmptyContext
    /\ raised = {}
    /\ lastTurn = NoTurn

InitClient ==
    /\ cpc = "idle"
    /\ wire = <<>>
    /\ lines = <<>>
    /\ messages = <<>>
    /\ sessionContext = EmptyContext
    /\ accumulatedResponse = TextAnswer(<<>>)
    /\ streamingResponse = TextAnswer(<<>>)
    /\ abortController = FALSE
    /\ aborted = FALSE
    /\ isLoading = FALSE
    /\ isStreaming = FALSE
    /\ submits = 0
    /\ sent = <<>>
    /\ processed = <<>>
    /\ atSubmit = [messages |-> 0, sessionContext |-> EmptyContext]
    /\ stoppedEarly = FALSE

InitScrape ==
    /\ scrapePc = "idle"
    /\ scrapeUrls = <<>>
    /\ failingIds = {}
    /\ cacheHits = <<>>
    /\ urlsToScrape = <<>>
    /\ scrapeResults = <<>>
    /\ chunkIndex = 0
    /\ inFlight = {}
    /\ chunkResults = <<>>
    /\ invocations = 0

Init == InitCache /\ InitTurn /\ InitClient /\ InitScrape

NextCache ==
    \/ \E id \in ProfIds : CacheGet(id) /\ UNCHANGED <<lruOrder, lastGet, turnVars, clientVars, scrapeVars>>
    \/ \E id \in ProfIds, data \in Records :
          CachePut(id, data) /\ UNCHANGED <<lruOrder, lastGet, turnVars, clientVars, scrapeVars>>
    \/ Tick /\ UNCHANGED <<lruOrder, lastGet, turnVars, clientVars, scrapeVars>>

SpecCache == Init /\ [][NextCache]_vars

\* The same operations, with the ranking an LRU cache would keep recorded beside them
NextLru ==
    \/ \E id \in ProfIds :
          /\ CacheGet(id)
          /\ lruOrder' = Ranked(lruOrder, rmpCache', id, lastOp'.ret # Null)
          /\ UNCHANGED <<lastGet, turnVars, clientVars, scrapeVars>>
    \/ \E id \in ProfIds, data \in Records :
          /\ CachePut(id, data)
          /\ lruOrder' = Ranked(lruOrder, rmpCache', id, TRUE)
          /\ UNCHANGED <<lastGet, turnVars, clientVars, scrapeVars>>
    \/ Tick /\ UNCHANGED <<lruOrder, lastGet, turnVars, clientVars, scrapeVars>>

SpecLru == Init /\ [][NextLru]_vars

\* The same operations, with the last get since the last put recorded beside them
NextGets ==
    \/ \E id \in ProfIds :
          /\ CacheGet(id)
          /\ lastGet' = [id |-> id, ret |-> lastOp'.ret, repeat |-> lastGet.id = id]
          /\ UNCHANGED <<lruOrder, turnVars, clientVars, scrapeVars>>
    \/ \E id \in ProfIds, data \in Records :
          /\ CachePut(id, data)
          /\ lastGet' = NoGet
          /\ UNCHANGED <<lruOrder, turnVars, clientVars, scrapeVars>>
    \/ Tick /\ UNCHANGED <<lruOrder, lastGet, turnVars, clientVars, scrapeVars>>

SpecGets == Init /\ [][NextGets]_vars

\* ------------------------------------------------------------------ SpecExtract
\* The extractor applied to texts put together from a few words
Words ==
    { <<"c", "s", "1", "0", "1">>,
      <<"C", "S", "-", "1", "0", "1">>,
      <<"a", "b", "c", "d", "e", "2", "2", "1">>,
      <<"m", "a", "t", "h", " ", "1", "5", "1">>,
      <<"x", "c", "s", "1", "0", "1", "1">>,
      <<"c", "s", "\t", "1", "0", "1">>,
      <<"c", "1", "0", "1">>,
      <<"c", "s", "1", "0">>,
      <<"c", "s", " ", " ", "1", "0", "1">>,
      <<"h", "i">> }

Joiners == {<<>>, <<" ">>}

RECURSIVE JoinWith(_, _)
JoinWith(ws, joiner) ==
    IF ws = <<>> THEN <<>>
    ELSE IF Len(ws) = 1 THEN ws[1]
    ELSE ws[1] \o joiner \o JoinWith(Tail(ws), joiner)

ExtractInputs ==
    {JoinWith(ws, j) : ws \in UNION {[1..n -> Words] : n \in 0..MaxWords}, j \in Joiners}

InitExtract ==
    /\ InitCache
    /\ InitClient
    /\ InitScrape
    /\ pc = "idle"
    /\ req \in {[NoRequest EXCEPT !.query = text] : text \in ExtractInputs}
    /\ coursesToUse = <<>>
    /\ statTask = <<>>
    /\ profTask = <<>>
    /\ events = <<>>
    /\ http = HttpNone
    /\ closed = FALSE
    /\ fullAnswer = <<>>
    /\ modelDeltas = <<>>
    /\ prompts = <<>>
    /\ calls = NoCalls
    /\ turn = 0
    /\ heldContext = EmptyContext
    /\ raised = {}
    /\ lastTurn = NoTurn

\* extractCoursesAndProfessors(query) is called and returns
Extract ==
    /\ pc = "idle"
    /\ pc' = "extracted"
    /\ coursesToUse' = extractCoursesAndProfessors(req.query)
    /\ UNCHANGED <<cacheVars, req, statTask, profTask, events, http, closed, fullAnswer,
                   modelDeltas, prompts, calls, turn, heldContext, raised, lastTurn, clientVars, scrapeVars>>

NextExtract == Extract

SpecExtract == InitExtract /\ [][NextExtract]_vars

\* ------------------------------------------------------------------ server helpers
tableName(course) == replaceFirstSpace(toLowerCase(course))

\* checkMultipleCoursesExist, when the connection and the query succeed
checkMultipleCoursesExist(courses) ==
    [c \in Range(courses) |-> tableName(c) \in ExistingTables]

InvalidCourses(courses) ==
    LET existenceResults == checkMultipleCoursesExist(courses)
    IN  SelectSeq(courses, LAMBDA c : ~existenceResults[c])

\* The filter of the valid courses left out
ValidCourses_Unfiltered(courses) == courses

\* coursesToUse.filter(course => !invalidCourses.includes(course))
ValidCourses(courses) ==
    LET invalid == Range(InvalidCourses(courses))
    IN  SelectSeq(courses, LAMBDA c : c \notin invalid)

\* The last course taken for the first
FirstOf_Last(courses) == IF courses = <<>> THEN NoCourse ELSE courses[Len(courses)]

\* validCourses[0], undefined when there is none
FirstOf(courses) == IF courses = <<>> THEN NoCourse ELSE courses[1]

\* The courses a turn works on, with the active ones preferred to the query's
CoursesFor_ContextFirst(query, ctx) ==
    LET coursesInQuery == extractCoursesAndProfessors(query)
    IN  IF Len(ctx.activeCourses) > 0 THEN ctx.activeCourses
        ELSE IF Len(coursesInQuery) > 0 THEN coursesInQuery
        ELSE <<>>

\* The courses a turn works on: those of the query, else the active ones
CoursesFor(query, ctx) ==
    LET coursesInQuery == extractCoursesAndProfessors(query)
    IN  IF Len(coursesInQuery) > 0 THEN coursesInQuery
        ELSE IF Len(ctx.activeCourses) > 0 THEN ctx.activeCourses
        ELSE <<>>

\* fetchCourseInfo's result from the rows of the grouped query
CourseInfo(rows) == [per_term |-> rows, overall |-> Unique(rows)]

EmptyCourseInfo == [per_term |-> <<>>, overall |-> <<>>]

\* rows.map(row => row.rmp_link) of fetchProfInfo's query
LinksOf(overall) == [i \in 1..Len(overall) |-> RmpLinkOf(overall[i])]

\* url.split('/').pop()
profIdOf(url) == url[Len(url)]

\* The cache pass that takes a cached error marker for a miss
RECURSIVE CacheCheck_RetriesErrors(_, _, _)
CacheCheck_RetriesErrors(m, urls, t) ==
    IF urls = <<>> THEN [cache |-> m, results |-> <<>>, urlsToScrape |-> <<>>]
    ELSE LET prev == CacheCheck_RetriesErrors(m, SubSeq(urls, 1, Len(urls) - 1), t)
             url == urls[Len(urls)]
             g == getCachedRmpData(prev.cache, profIdOf(url), t)
         IN  IF url = <<>> THEN prev   \* if (!url) continue
             ELSE IF g.ret # Null /\ g.ret # "err"
             THEN [cache |-> g.cache,
                   results |-> (profIdOf(url) :> g.ret) @@ prev.results,
                   urlsToScrape |-> prev.urlsToScrape]
             ELSE [cache |-> g.cache,
                   results |-> prev.results,
                   urlsToScrape |-> Append(prev.urlsToScrape, url)]

\* The cache pass of scrapeRmpProfessors over urls, left to right:
\* the Map afterwards, the hits and the URLs left to scrape.
RECURSIVE CacheCheck(_, _, _)
CacheCheck(m, urls, t) ==
    IF urls = <<>> THEN [cache |-> m, results |-> <<>>, urlsToScrape |-> <<>>]
    ELSE LET prev == CacheCheck(m, SubSeq(urls, 1, Len(urls) - 1), t)
             url == urls[Len(urls)]
             g == getCachedRmpData(prev.cache, profIdOf(url), t)
         IN  IF url = <<>> THEN prev   \* if (!url) continue
             ELSE IF g.ret # Null
             THEN [cache |-> g.cache,
                   results |-> (profIdOf(url) :> g.ret) @@ prev.results,
                   urlsToScrape |-> prev.urlsToScrape]
             ELSE [cache |-> g.cache,
                   results |-> prev.results,
                   urlsToScrape |-> Append(prev.urlsToScrape, url)]

\* What scrapeSingleProfessor caches and returns: the record, or the error marker
Scraped(url, failing) == IF profIdOf(url) \in failing THEN "err" ELSE "rec1"

\* The scrapes of urls settled in list order, those of `failing` with an exception
RECURSIVE ScrapeAll(_, _, _, _, _)
ScrapeAll(m, results, urls, failing, t) ==
    IF urls = <<>> THEN [cache |-> m, results |-> results]
    ELSE LET prev == ScrapeAll(m, results, SubSeq(urls, 1, Len(urls) - 1), failing, t)
             url == urls[Len(urls)]
             data == Scraped(url, failing)
         IN  [cache |-> setCachedRmpData(prev.cache, profIdOf(url), data, t),
              results |-> (profIdOf(url) :> data) @@ prev.results]

\* The ranking an LRU cache would keep after the ids of `touched` were hit or
\* put in that order, for the Map m that resulted
RECURSIVE Touch(_, _)
Touch(order, touched) ==
    IF touched = <<>> THEN order
    ELSE Touch(Append(SelectSeq(order, LAMBDA x : x # Head(touched)), Head(touched)),
               Tail(touched))

RankedAll(order, m, touched) == SelectSeq(Touch(order, touched), LAMBDA x : MapHas(m, x))

IdSeq(urls) == [k \in 1..Len(urls) |-> profIdOf(urls[k])]

StatPending(task) == task.st \in {"connect", "query"}

ProfPending(task) == task.st \in {"connect", "query", "scrape"}

Quiescent ==
    /\ \A i \in 1..Len(statTask) : ~StatPending(statTask[i])
    /\ \A i \in 1..Len(profTask) : ~ProfPending(profTask[i])

TurnContext == [currentCourse |-> FirstOf(coursesToUse), activeCourses |-> coursesToUse]

\* buildPromptWithMultiCourses: what the prompt is built from
Prompt(stats, profs) ==
    [query |-> req.query,
     courseData |-> [i \in 1..Len(stats) |-> stats[i].info],
     profData |-> [i \in 1..Len(profs) |-> profs[i].results],
     sessionContext |-> TurnContext]

\* Events are enqueued only by the streaming path
Sent(evs) == IF req.useStreaming THEN events \o evs ELSE events

\* ------------------------------------------------------------------ how a turn ends
\* The answer function returns (answer, ctx): the complete event and the end of
\* the stream, or the JSON body.  `pre` are status events sent just before.
Finish(streaming, pre, answer, ctx) ==
    /\ pc' = "done"
    /\ IF streaming
       THEN /\ events' = events \o pre \o <<CompleteEvent(answer, ctx)>>
            /\ closed' = TRUE
            /\ http' = HttpStream
       ELSE /\ http' = HttpJson(answer, ctx)
            /\ UNCHANGED <<events, closed>>
    /\ heldContext' = ctx

\* An exception that leaves the answer function: the catch blocks of POST
Thrown ==
    /\ pc' = "done"
    /\ IF req.useStreaming
       THEN /\ events' = Append(events, ErrorEvent(RawError))
            /\ closed' = TRUE
            /\ UNCHANGED http
       ELSE /\ http' = HttpError(500, RawError)
            /\ UNCHANGED <<events, closed>>
    /\ UNCHANGED heldContext

\* The catch block of the answer function, logging only
Caught_Silent ==
    /\ pc' = "done"
    /\ IF req.useStreaming
       THEN /\ closed' = TRUE
            /\ UNCHANGED <<events, http, heldContext>>
       ELSE /\ http' = HttpJson(NoAnswer, TurnContext)
            /\ heldContext' = TurnContext
            /\ UNCHANGED <<events, closed>>

\* The catch block of the answer function, rethrowing
Caught_Rethrows == Thrown

\* The catch block of the answer function
Caught ==
    /\ pc' = "done"
    /\ IF req.useStreaming
       THEN /\ events' = Append(events, ErrorEvent(ApologyAnswer))
            /\ closed' = TRUE
            /\ UNCHANGED <<http, heldContext>>
       ELSE /\ http' = HttpJson(ApologyAnswer, TurnContext)
            /\ heldContext' = TurnContext
            /\ UNCHANGED <<events, closed>>

outVars == <<pc, events, closed, http, heldContext>>

\* ------------------------------------------------------------------ POST
ContextsSent == {EmptyContext, heldContext, ForeignContext}

\* await req.json() throws
PostBadBody ==
    /\ pc = "idle"
    /\ turn' = turn + 1
    /\ pc' = "done"
    /\ http' = HttpError(500, RawError)
    /\ UNCHANGED <<cacheVars, req, coursesToUse, statTask, profTask, events, closed,
                   fullAnswer, modelDeltas, prompts, calls, heldContext>>
    /\ UNCHANGED raised

\* if (!query)
PostMissingQuery(ctx, streaming) ==
    /\ pc = "idle"
    /\ turn' = turn + 1
    /\ req' = [query |-> <<>>, sessionContext |-> ctx, useStreaming |-> streaming]
    /\ pc' = "done"
    /\ http' = HttpError(400, MissingQuery)
    /\ UNCHANGED <<cacheVars, coursesToUse, statTask, profTask, events, closed,
                   fullAnswer, modelDeltas, prompts, calls, heldContext>>
    /\ UNCHANGED raised

\* coursesToUse.length === 0, answering with the context the caller held
PostNoCourse_KeepsHeld(query, ctx, streaming) ==
    /\ pc = "idle"
    /\ query # <<>>
    /\ CoursesFor(query, ctx) = <<>>
    /\ turn' = turn + 1
    /\ req' = [query |-> query, sessionContext |-> ctx, useStreaming |-> streaming]
    /\ Finish(streaming, <<StatusEvent(0)>>, AskCourseAnswer, heldContext)
    /\ UNCHANGED <<cacheVars, coursesToUse, statTask, profTask,
                   fullAnswer, modelDeltas, prompts, calls, raised>>

\* coursesToUse.length === 0
PostNoCourse(query, ctx, streaming) ==
    /\ pc = "idle"
    /\ query # <<>>
    /\ CoursesFor(query, ctx) = <<>>
    /\ turn' = turn + 1
    /\ req' = [query |-> query, sessionContext |-> ctx, useStreaming |-> streaming]
    /\ Finish(streaming, <<StatusEvent(0)>>, AskCourseAnswer, EmptyContext)
    /\ UNCHANGED <<cacheVars, coursesToUse, statTask, profTask,
                   fullAnswer, modelDeltas, prompts, calls>>
    /\ UNCHANGED raised

\* Courses found: the existence check is called and awaits its connection
PostBeginValidation(query, ctx, streaming) ==
    /\ pc = "idle"
    /\ query # <<>>
    /\ CoursesFor(query, ctx) # <<>>
    /\ turn' = turn + 1
    /\ req' = [query |-> query, sessionContext |-> ctx, useStreaming |-> streaming]
    /\ coursesToUse' = CoursesFor(query, ctx)
    /\ pc' = "checkConnect"
    /\ events' = IF streaming THEN <<StatusEvent(0), StatusEvent(10)>> ELSE <<>>
    /\ http' = IF streaming THEN HttpStream ELSE HttpNone
    /\ calls' = [calls EXCEPT !.exists = @ + 1]
    /\ UNCHANGED <<cacheVars, statTask, profTask, closed, fullAnswer, modelDeltas,
                   prompts, heldContext>>
    /\ UNCHANGED raised

\* ------------------------------------------------------------------ validation
CheckConnectOk ==
    /\ pc = "checkConnect"
    /\ pc' = "checkQuery"
    /\ UNCHANGED <<cacheVars, req, coursesToUse, statTask, profTask, events, http, closed,
                   fullAnswer, modelDeltas, prompts, calls, turn, heldContext>>
    /\ UNCHANGED raised

\* pool.connect() or client.query() of checkMultipleCoursesExist rejects
CheckThrows ==
    /\ pc \in {"checkConnect", "checkQuery"}
    /\ Thrown
    /\ UNCHANGED <<cacheVars, req, coursesToUse, statTask, profTask,
                   fullAnswer, modelDeltas, prompts, calls, turn>>
    /\ raised' = raised \cup {"exists"}

\* The all-invalid branch, returning the incoming session context
CheckAllInvalid_KeepsContext ==
    /\ pc = "checkQuery"
    /\ Len(InvalidCourses(coursesToUse)) = Len(coursesToUse)
    /\ Finish(req.useStreaming, <<>>, NoDataAnswer(JoinComma(coursesToUse)), req.sessionContext)
    /\ UNCHANGED <<cacheVars, req, coursesToUse, statTask, profTask,
                   fullAnswer, modelDeltas, prompts, calls, turn, raised>>

CheckAllInvalid ==
    LET invalidCourses == InvalidCourses(coursesToUse)
        courseString == IF Len(invalidCourses) = 1 THEN invalidCourses[1]
                        ELSE JoinComma(invalidCourses)
    IN  /\ pc = "checkQuery"
        /\ Len(invalidCourses) > 0
        /\ Len(invalidCourses) = Len(coursesToUse)
        /\ Finish(req.useStreaming, <<>>, NoDataAnswer(courseString),
                  [currentCourse |-> NoCourse, activeCourses |-> ValidCourses(coursesToUse)])
        /\ UNCHANGED <<cacheVars, req, coursesToUse, statTask, profTask,
                       fullAnswer, modelDeltas, prompts, calls, turn>>
    /\ UNCHANGED raised

CheckPartiallyInvalid ==
    LET invalidCourses == InvalidCourses(coursesToUse)
        validCourses == ValidCourses(coursesToUse)
    IN  /\ pc = "checkQuery"
        /\ Len(invalidCourses) > 0
        /\ Len(invalidCourses) # Len(coursesToUse)
        /\ Finish(req.useStreaming, <<>>, PartialAnswer(JoinComma(invalidCourses)),
                  [currentCourse |-> FirstOf(validCourses), activeCourses |-> validCourses])
        /\ UNCHANGED <<cacheVars, req, coursesToUse, statTask, profTask,
                       fullAnswer, modelDeltas, prompts, calls, turn>>
    /\ UNCHANGED raised

\* All courses exist: every fetchCourseInfo is called and awaits its connection
CheckAllValid ==
    /\ pc = "checkQuery"
    /\ Len(InvalidCourses(coursesToUse)) = 0
    /\ pc' = "stats"
    /\ events' = Sent(<<StatusEvent(20)>>)
    /\ statTask' = [i \in 1..Len(coursesToUse) |-> [st |-> "connect", info |-> EmptyCourseInfo]]
    /\ calls' = [calls EXCEPT !.stats = @ + Len(coursesToUse)]
    /\ UNCHANGED <<cacheVars, req, coursesToUse, profTask, http, closed,
                   fullAnswer, modelDeltas, prompts, turn, heldContext>>
    /\ UNCHANGED raised

\* ------------------------------------------------------------------ fetching
\* Promise.all over fetchProfInfo resolved: the prompt is built and the model called
CallModel(profs, calls2) ==
    /\ pc' = "model"
    /\ events' = Sent(<<StatusEvent(70)>>)
    /\ prompts' = Append(prompts, Prompt(statTask, profs))
    /\ calls' = [calls2 EXCEPT !.model = @ + 1]
    /\ UNCHANGED <<http, closed, heldContext>>

\* A fetchProfInfo call moved on, the model being called when the first is done
ProfStep_FirstDone(profs, calls2) ==
    /\ profTask' = profs
    /\ IF pc = "profs" /\ \E i \in 1..Len(profs) : profs[i].st = "done"
       THEN CallModel(profs, calls2)
       ELSE /\ calls' = calls2
            /\ UNCHANGED <<outVars, prompts>>

\* A fetchProfInfo call moved on; its Promise.all resolves when all are done
ProfStep(profs, calls2) ==
    /\ profTask' = profs
    /\ IF pc = "profs" /\ \A i \in 1..Len(profs) : profs[i].st = "done"
       THEN CallModel(profs, calls2)
       ELSE /\ calls' = calls2
            /\ UNCHANGED <<outVars, prompts>>

\* Promise.all over fetchCourseInfo resolved: every fetchProfInfo is called;
\* one with an empty instructor list returns {} at once
StartProfs(stats) ==
    LET profs == [i \in 1..Len(stats) |->
                    [st |-> IF stats[i].info.overall = <<>> THEN "done" ELSE "connect",
                     toScrape |-> <<>>, results |-> <<>>]]
        lookups == Cardinality({i \in 1..Len(profs) : profs[i].st = "connect"})
        calls2 == [calls EXCEPT !.prof = @ + lookups]
    IN  /\ profTask' = profs
        /\ IF \A i \in 1..Len(profs) : profs[i].st = "done"
           THEN /\ pc' = "model"
                /\ events' = Sent(<<StatusEvent(40), StatusEvent(70)>>)
                /\ prompts' = Append(prompts, Prompt(stats, profs))
                /\ calls' = [calls2 EXCEPT !.model = @ + 1]
           ELSE /\ pc' = "profs"
                /\ events' = Sent(<<StatusEvent(40)>>)
                /\ calls' = calls2
                /\ UNCHANGED prompts
        /\ UNCHANGED <<http, closed, heldContext>>

StatsConnectOk(i) ==
    /\ i \in 1..Len(statTask)
    /\ statTask[i].st = "connect"
    /\ statTask' = [statTask EXCEPT ![i].st = "query"]
    /\ UNCHANGED <<cacheVars, req, coursesToUse, profTask, outVars,
                   fullAnswer, modelDeltas, prompts, calls, turn>>
    /\ UNCHANGED raised

\* pool.connect() of fetchCourseInfo rejects, outside its try
StatsConnectFail(i) ==
    /\ i \in 1..Len(statTask)
    /\ statTask[i].st = "connect"
    /\ statTask' = [statTask EXCEPT ![i].st = "rejected"]
    /\ IF pc = "stats" THEN Caught ELSE UNCHANGED outVars
    /\ UNCHANGED <<cacheVars, req, coursesToUse, profTask,
                   fullAnswer, modelDeltas, prompts, calls, turn>>
    /\ raised' = raised \cup {"statsConnect"}

\* The grouped query returns its rows, or fails and is caught inside fetchCourseInfo
StatsQuery(i, ok) ==
    /\ i \in 1..Len(statTask)
    /\ statTask[i].st = "query"
    /\ LET info == IF ok THEN CourseInfo(PerTermRows(tableName(coursesToUse[i])))
                   ELSE EmptyCourseInfo
           stats == [statTask EXCEPT ![i] = [st |-> "done", info |-> info]]
       IN  /\ statTask' = stats
           /\ IF pc = "stats" /\ \A j \in 1..Len(stats) : stats[j].st = "done"
              THEN StartProfs(stats)
              ELSE UNCHANGED <<profTask, outVars, prompts, calls>>
    /\ UNCHANGED <<cacheVars, req, coursesToUse, fullAnswer, modelDeltas, turn>>
    /\ raised' = IF ok THEN raised ELSE raised \cup {"statsQuery"}

ProfConnectOk(i) ==
    /\ i \in 1..Len(profTask)
    /\ profTask[i].st = "connect"
    /\ profTask' = [profTask EXCEPT ![i].st = "query"]
    /\ UNCHANGED <<cacheVars, req, coursesToUse, statTask, outVars,
                   fullAnswer, modelDeltas, prompts, calls, turn>>
    /\ UNCHANGED raised

\* pool.connect() of fetchProfInfo rejects, outside its try
ProfConnectFail(i) ==
    /\ i \in 1..Len(profTask)
    /\ profTask[i].st = "connect"
    /\ profTask' = [profTask EXCEPT ![i].st = "rejected"]
    /\ IF pc = "profs" THEN Caught ELSE UNCHANGED outVars
    /\ UNCHANGED <<cacheVars, req, coursesToUse, statTask,
                   fullAnswer, modelDeltas, prompts, calls, turn>>
    /\ raised' = raised \cup {"profConnect"}

\* The professor query fails and is caught inside fetchProfInfo, which returns {}
ProfQueryFail(i) ==
    /\ i \in 1..Len(profTask)
    /\ profTask[i].st = "query"
    /\ ProfStep([profTask EXCEPT ![i].st = "done"], calls)
    /\ UNCHANGED <<cacheVars, req, coursesToUse, statTask, fullAnswer, modelDeltas, turn>>
    /\ raised' = raised \cup {"profQuery"}

\* The professor query returns the links; scrapeRmpProfessors runs its cache pass
\* and, unless every link was a hit, starts scraping
ProfQueryOk(i) ==
    /\ i \in 1..Len(profTask)
    /\ profTask[i].st = "query"
    /\ LET urls == LinksOf(statTask[i].info.overall)
           c == CacheCheck(rmpCache, urls, now)
       IN  /\ rmpCache' = c.cache
           /\ ProfStep([profTask EXCEPT ![i] =
                          [st |-> IF c.urlsToScrape = <<>> THEN "done" ELSE "scrape",
                           toScrape |-> c.urlsToScrape, results |-> c.results]],
                       [calls EXCEPT !.cacheGet = @ + Len(urls)])
           /\ lruOrder' = RankedAll(lruOrder, c.cache,
                                    SelectSeq(IdSeq(urls), LAMBDA id : id \in DOMAIN c.results))
    /\ UNCHANGED <<now, lastOp, lastGet, req, coursesToUse, statTask, fullAnswer, modelDeltas, turn>>
    /\ UNCHANGED raised

\* The scrapes of one scrapeRmpProfessors call settle, those of `failing` with an
\* exception; each caches its record or its error marker.  (One step here.)
ScrapeSettle(i, failing) ==
    /\ i \in 1..Len(profTask)
    /\ profTask[i].st = "scrape"
    /\ failing \subseteq {profIdOf(profTask[i].toScrape[k]) : k \in 1..Len(profTask[i].toScrape)}
    /\ LET r == ScrapeAll(rmpCache, profTask[i].results, profTask[i].toScrape, failing, now)
           n == Len(profTask[i].toScrape)
       IN  /\ rmpCache' = r.cache
           /\ ProfStep([profTask EXCEPT ![i] =
                          [st |-> "done", toScrape |-> <<>>, results |-> r.results]],
                       [calls EXCEPT !.scrape = @ + n, !.cachePut = @ + n])
           /\ lruOrder' = RankedAll(lruOrder, r.cache, IdSeq(profTask[i].toScrape))
    /\ UNCHANGED <<now, lastOp, lastGet, req, coursesToUse, statTask, fullAnswer, modelDeltas, turn>>
    /\ raised' = IF failing = {} THEN raised ELSE raised \cup {"scrape"}

\* ------------------------------------------------------------------ generating
\* What the whole-response call may return as message.content
Texts == {<<"a">>, <<"a", "b">>}

\* openai.chat.completions.create rejects
ModelThrows ==
    /\ pc = "model"
    /\ Caught
    /\ UNCHANGED <<cacheVars, req, coursesToUse, statTask, profTask,
                   fullAnswer, modelDeltas, prompts, calls, turn>>
    /\ raised' = raised \cup {"model"}

ModelReturns(text) ==
    /\ pc = "model"
    /\ ~req.useStreaming
    /\ Finish(FALSE, <<>>, TextAnswer(text), TurnContext)
    /\ UNCHANGED <<cacheVars, req, coursesToUse, statTask, profTask,
                   fullAnswer, modelDeltas, prompts, calls, turn>>
    /\ UNCHANGED raised

ModelStreamOpens ==
    /\ pc = "model"
    /\ req.useStreaming
    /\ pc' = "stream"
    /\ events' = Append(events, StatusEvent(80))
    /\ fullAnswer' = <<>>
    /\ UNCHANGED <<cacheVars, req, coursesToUse, statTask, profTask, http, closed,
                   modelDeltas, prompts, calls, turn, heldContext>>
    /\ UNCHANGED raised

\* fullAnswer += content, with the accumulator overwritten instead
Accumulate_Overwrite(full, content) == content

\* fullAnswer += content
Accumulate(full, content) == full \o content

\* One iteration of for await (const chunk of response)
StreamDelta(content) ==
    /\ pc = "stream"
    /\ Len(modelDeltas) < MaxDeltas
    /\ modelDeltas' = Append(modelDeltas, content)
    /\ IF content # <<>>
       THEN /\ fullAnswer' = Accumulate(fullAnswer, content)
            /\ events' = Append(events, ChunkEvent(content))
       ELSE UNCHANGED <<fullAnswer, events>>
    /\ UNCHANGED <<cacheVars, pc, req, coursesToUse, statTask, profTask, http, closed,
                   prompts, calls, turn, heldContext>>
    /\ UNCHANGED raised

\* The model stream throws while it is consumed
StreamThrows ==
    /\ pc = "stream"
    /\ Caught
    /\ UNCHANGED <<cacheVars, req, coursesToUse, statTask, profTask,
                   fullAnswer, modelDeltas, prompts, calls, turn>>
    /\ raised' = raised \cup {"stream"}

StreamEnds ==
    /\ pc = "stream"
    /\ Finish(TRUE, <<>>, TextAnswer(fullAnswer), TurnContext)
    /\ UNCHANGED <<cacheVars, req, coursesToUse, statTask, profTask,
                   fullAnswer, modelDeltas, prompts, calls, turn>>
    /\ UNCHANGED raised

\* The caller sends its next request once the last one is over
NextTurn ==
    /\ pc = "done"
    /\ Quiescent
    /\ turn < MaxTurns
    /\ pc' = "idle"
    /\ req' = NoRequest
    /\ coursesToUse' = <<>>
    /\ statTask' = <<>>
    /\ profTask' = <<>>
    /\ events' = <<>>
    /\ http' = HttpNone
    /\ closed' = FALSE
    /\ fullAnswer' = <<>>
    /\ modelDeltas' = <<>>
    /\ prompts' = <<>>
    /\ calls' = NoCalls
    /\ UNCHANGED <<cacheVars, turn, heldContext>>
    /\ raised' = {}

NextTurnSpec ==
    \/ PostBadBody /\ UNCHANGED <<clientVars, scrapeVars, lastTurn>>
    \/ \E ctx \in ContextsSent, streaming \in BOOLEAN : PostMissingQuery(ctx, streaming) /\ UNCHANGED <<clientVars, scrapeVars, lastTurn>>
    \/ \E query \in Queries, ctx \in ContextsSent, streaming \in BOOLEAN :
          PostNoCourse(query, ctx, streaming) /\ UNCHANGED <<clientVars, scrapeVars, lastTurn>>
    \/ \E query \in Queries, ctx \in ContextsSent, streaming \in BOOLEAN :
          PostBeginValidation(query, ctx, streaming) /\ UNCHANGED <<clientVars, scrapeVars, lastTurn>>
    \/ CheckConnectOk /\ UNCHANGED <<clientVars, scrapeVars, lastTurn>>
    \/ CheckThrows /\ UNCHANGED <<clientVars, scrapeVars, lastTurn>>
    \/ CheckAllInvalid /\ UNCHANGED <<clientVars, scrapeVars, lastTurn>>
    \/ CheckPartiallyInvalid /\ UNCHANGED <<clientVars, scrapeVars, lastTurn>>
    \/ CheckAllValid /\ UNCHANGED <<clientVars, scrapeVars, lastTurn>>
    \/ \E i \in 1..Len(statTask) : StatsConnectOk(i) /\ UNCHANGED <<clientVars, scrapeVars, lastTurn>>
    \/ \E i \in 1..Len(statTask) : StatsConnectFail(i) /\ UNCHANGED <<clientVars, scrapeVars, lastTurn>>
    \/ \E i \in 1..Len(statTask), ok \in BOOLEAN : StatsQuery(i, ok) /\ UNCHANGED <<clientVars, scrapeVars, lastTurn>>
    \/ \E i \in 1..Len(profTask) : ProfConnectOk(i) /\ UNCHANGED <<clientVars, scrapeVars, lastTurn>>
    \/ \E i \in 1..Len(profTask) : ProfConnectFail(i) /\ UNCHANGED <<clientVars, scrapeVars, lastTurn>>
    \/ \E i \in 1..Len(profTask) : ProfQueryFail(i) /\ UNCHANGED <<clientVars, scrapeVars, lastTurn>>
    \/ \E i \in 1..Len(profTask) : ProfQueryOk(i) /\ UNCHANGED <<clientVars, scrapeVars, lastTurn>>
    \/ \E i \in 1..Len(profTask), failing \in SUBSET ProfIds : ScrapeSettle(i, failing) /\ UNCHANGED <<clientVars, scrapeVars, lastTurn>>
    \/ ModelThrows /\ UNCHANGED <<clientVars, scrapeVars, lastTurn>>
    \/ \E text \in Texts : ModelReturns(text) /\ UNCHANGED <<clientVars, scrapeVars, lastTurn>>
    \/ ModelStreamOpens /\ UNCHANGED <<clientVars, scrapeVars, lastTurn>>
    \/ \E content \in Deltas : StreamDelta(content) /\ UNCHANGED <<clientVars, scrapeVars, lastTurn>>
    \/ StreamThrows /\ UNCHANGED <<clientVars, scrapeVars, lastTurn>>
    \/ StreamEnds /\ UNCHANGED <<clientVars, scrapeVars, lastTurn>>
    \/ NextTurn /\ UNCHANGED <<clientVars, scrapeVars, lastTurn>>

SpecTurn == Init /\ [][NextTurnSpec]_vars

\* ------------------------------------------------------------------ SpecTwice
\* The same request made twice, once in each mode
\* What the turn delivered last: the terminal event, or the response body
Delivered ==
    IF req.useStreaming /\ events # <<>>
    THEN [answer |-> events[Len(events)].answer,
          sessionContext |-> events[Len(events)].sessionContext,
          hasContext |-> events[Len(events)].type = "complete"]
    ELSE [answer |-> http.answer,
          sessionContext |-> http.sessionContext,
          hasContext |-> http.kind = "json"]

\* How the collaborators behaved in this turn, as far as the answer functions see it
Behaviour ==
    [escaped |-> raised \cap {"exists", "statsConnect", "profConnect"},
     modelFailed |-> raised \cap {"model", "stream"} # {},
     text |-> IF calls.model >= 1 /\ Delivered.answer.kind = "text"
              THEN Delivered.answer.arg
              ELSE <<>>]

TurnRecord ==
    [query |-> req.query, sessionContext |-> req.sessionContext,
     useStreaming |-> req.useStreaming, behaviour |-> Behaviour, delivered |-> Delivered]

\* The second request repeats the first in the other mode
Repeats(query, ctx, streaming) ==
    (pc = "idle" /\ turn = 1) =>
        /\ query = lastTurn.query
        /\ ctx = lastTurn.sessionContext
        /\ streaming # lastTurn.useStreaming

NextTwice ==
    \/ \E ctx \in ContextsSent, streaming \in BOOLEAN :
          Repeats(<<>>, ctx, streaming) /\ PostMissingQuery(ctx, streaming) /\ UNCHANGED <<clientVars, scrapeVars, lastTurn>>
    \/ \E query \in Queries, ctx \in ContextsSent, streaming \in BOOLEAN :
          Repeats(query, ctx, streaming) /\ PostNoCourse(query, ctx, streaming) /\ UNCHANGED <<clientVars, scrapeVars, lastTurn>>
    \/ \E query \in Queries, ctx \in ContextsSent, streaming \in BOOLEAN :
          Repeats(query, ctx, streaming) /\ PostBeginValidation(query, ctx, streaming) /\ UNCHANGED <<clientVars, scrapeVars, lastTurn>>
    \/ CheckConnectOk /\ UNCHANGED <<clientVars, scrapeVars, lastTurn>>
    \/ CheckThrows /\ UNCHANGED <<clientVars, scrapeVars, lastTurn>>
    \/ CheckAllInvalid /\ UNCHANGED <<clientVars, scrapeVars, lastTurn>>
    \/ CheckPartiallyInvalid /\ UNCHANGED <<clientVars, scrapeVars, lastTurn>>
    \/ CheckAllValid /\ UNCHANGED <<clientVars, scrapeVars, lastTurn>>
    \/ \E i \in 1..Len(statTask) : StatsConnectOk(i) /\ UNCHANGED <<clientVars, scrapeVars, lastTurn>>
    \/ \E i \in 1..Len(statTask) : StatsConnectFail(i) /\ UNCHANGED <<clientVars, scrapeVars, lastTurn>>
    \/ \E i \in 1..Len(statTask), ok \in BOOLEAN : StatsQuery(i, ok) /\ UNCHANGED <<clientVars, scrapeVars, lastTurn>>
    \/ \E i \in 1..Len(profTask) : ProfConnectOk(i) /\ UNCHANGED <<clientVars, scrapeVars, lastTurn>>
    \/ \E i \in 1..Len(profTask) : ProfConnectFail(i) /\ UNCHANGED <<clientVars, scrapeVars, lastTurn>>
    \/ \E i \in 1..Len(profTask) : ProfQueryFail(i) /\ UNCHANGED <<clientVars, scrapeVars, lastTurn>>
    \/ \E i \in 1..Len(profTask) : ProfQueryOk(i) /\ UNCHANGED <<clientVars, scrapeVars, lastTurn>>
    \/ \E i \in 1..Len(profTask), failing \in SUBSET ProfIds : ScrapeSettle(i, failing) /\ UNCHANGED <<clientVars, scrapeVars, lastTurn>>
    \/ ModelThrows /\ UNCHANGED <<clientVars, scrapeVars, lastTurn>>
    \/ \E text \in Texts : ModelReturns(text) /\ UNCHANGED <<clientVars, scrapeVars, lastTurn>>
    \/ ModelStreamOpens /\ UNCHANGED <<clientVars, scrapeVars, lastTurn>>
    \/ \E content \in Deltas : StreamDelta(content) /\ UNCHANGED <<clientVars, scrapeVars, lastTurn>>
    \/ StreamThrows /\ UNCHANGED <<clientVars, scrapeVars, lastTurn>>
    \/ StreamEnds /\ UNCHANGED <<clientVars, scrapeVars, lastTurn>>
    \/ NextTurn /\ lastTurn' = TurnRecord /\ UNCHANGED <<clientVars, scrapeVars>>


SpecTwice == Init /\ [][NextTwice]_vars

\* ------------------------------------------------------------------ SpecScrape
\* One call of scrapeRmpProfessors at a time, request by request
ProfUrl(id) == <<"professor", id>>

\* null, as an rmp_link
NoUrl == <<>>

\* The professors the lists of links name
ScrapeIds == ProfIds \cup {"p5"}

UrlLists ==
    { <<ProfUrl("p1"), ProfUrl("p2"), ProfUrl("p3"), ProfUrl("p4"), ProfUrl("p5")>>,
      <<ProfUrl("p4"), NoUrl, ProfUrl("p1")>>,
      <<ProfUrl("p2")>> }

UrlIds(us) == {profIdOf(us[k]) : k \in {j \in 1..Len(us) : us[j] # NoUrl}}

NumChunks(n) == (n + CONCURRENCY_LIMIT - 1) \div CONCURRENCY_LIMIT

\* The chunks made of the whole list
ChunkPositions_All(n, i) == 1..n

\* urlsToScrape.slice(i * CONCURRENCY_LIMIT, i * CONCURRENCY_LIMIT + CONCURRENCY_LIMIT),
\* as positions of urlsToScrape
ChunkPositions(n, i) == {k \in 1..n : (k - 1) \div CONCURRENCY_LIMIT = i}

\* The results stored up to the first error marker only
RECURSIVE StoreFrom_StopsAtError(_, _, _, _)
StoreFrom_StopsAtError(res, settled, k, hi) ==
    IF k > hi \/ settled[k] = "err" THEN res
    ELSE StoreFrom_StopsAtError((profIdOf(urlsToScrape[k]) :> settled[k]) @@ res, settled, k + 1, hi)

\* chunkResults.forEach(({ profId, data }) => { results[profId] = data })
RECURSIVE StoreFrom(_, _, _, _)
StoreFrom(res, settled, k, hi) ==
    IF k > hi THEN res
    ELSE StoreFrom((profIdOf(urlsToScrape[k]) :> settled[k]) @@ res, settled, k + 1, hi)

\* scrapeRmpProfessors(us) is called: the cache pass, and the first chunk's
\* requests are sent, or the early return when nothing is left to scrape
Invoke(us, failing) ==
    /\ scrapePc \in {"idle", "returned"}
    /\ invocations < MaxInvocations
    /\ invocations' = invocations + 1
    /\ LET c == CacheCheck(rmpCache, us, now)
       IN  /\ failing \subseteq UrlIds(c.urlsToScrape)
           /\ rmpCache' = c.cache
           /\ scrapeUrls' = us
           /\ failingIds' = failing
           /\ cacheHits' = c.results
           /\ urlsToScrape' = c.urlsToScrape
           /\ scrapeResults' = c.results
           /\ chunkIndex' = 0
           /\ chunkResults' = <<>>
           /\ IF c.urlsToScrape = <<>>
              THEN scrapePc' = "returned" /\ inFlight' = {}
              ELSE scrapePc' = "batch" /\ inFlight' = ChunkPositions(Len(c.urlsToScrape), 0)
    /\ UNCHANGED <<now, lastOp, lruOrder, lastGet, turnVars, clientVars>>

\* One scrapeSingleProfessor settles: it caches its record or its error marker
Settle(k) ==
    /\ scrapePc = "batch"
    /\ k \in inFlight
    /\ LET url == urlsToScrape[k]
           data == Scraped(url, failingIds)
       IN  /\ rmpCache' = setCachedRmpData(rmpCache, profIdOf(url), data, now)
           /\ chunkResults' = (k :> data) @@ chunkResults
    /\ inFlight' = inFlight \ {k}
    /\ UNCHANGED <<now, lastOp, lruOrder, lastGet, turnVars, clientVars, scrapePc, scrapeUrls,
                   failingIds, cacheHits, urlsToScrape, scrapeResults, chunkIndex, invocations>>

\* Promise.all of the chunk resolved: its results are stored; the function
\* returns after the last chunk and waits 300 ms otherwise
BatchDone ==
    /\ scrapePc = "batch"
    /\ inFlight = {}
    /\ LET n == Len(urlsToScrape)
           lo == chunkIndex * CONCURRENCY_LIMIT + 1
           hi == IF lo + CONCURRENCY_LIMIT - 1 < n THEN lo + CONCURRENCY_LIMIT - 1 ELSE n
       IN  /\ scrapeResults' = StoreFrom(scrapeResults, chunkResults, lo, hi)
           /\ scrapePc' = IF chunkIndex < NumChunks(n) - 1 THEN "delay" ELSE "returned"
    /\ chunkResults' = <<>>
    /\ UNCHANGED <<cacheVars, turnVars, clientVars, scrapeUrls, failingIds, cacheHits,
                   urlsToScrape, chunkIndex, inFlight, invocations>>

\* The delay between two chunks is over: the next chunk's requests are sent
DelayElapsed ==
    /\ scrapePc = "delay"
    /\ chunkIndex' = chunkIndex + 1
    /\ inFlight' = ChunkPositions(Len(urlsToScrape), chunkIndex + 1)
    /\ scrapePc' = "batch"
    /\ UNCHANGED <<cacheVars, turnVars, clientVars, scrapeUrls, failingIds, cacheHits,
                   urlsToScrape, scrapeResults, chunkResults, invocations>>

NextScrape ==
    \/ \E us \in UrlLists, failing \in SUBSET ScrapeIds : Invoke(us, failing)
    \/ \E k \in inFlight : Settle(k)
    \/ BatchDone
    \/ DelayElapsed

SpecScrape == Init /\ [][NextScrape]_vars

\* ------------------------------------------------------------------ the wire
\* sendUpdate writes `data: <json>\n\n`.  The data line is written here as two
\* pieces, so that a read boundary can fall inside it.
NoEvent == [type |-> "none", progress |-> 0, content |-> <<>>, answer |-> NoAnswer,
            sessionContext |-> EmptyContext]

NewLine == [k |-> "nl", ev |-> NoEvent]

sendUpdate(e) == <<[k |-> "head", ev |-> e], [k |-> "tail", ev |-> e], NewLine, NewLine>>

Wire(evs) == Flatten([i \in 1..Len(evs) |-> sendUpdate(evs[i])])

\* chunk.split('\n')
RECURSIVE SplitLines(_)
SplitLines(tokens) ==
    IF \E i \in 1..Len(tokens) : tokens[i].k = "nl"
    THEN LET i == CHOOSE n \in 1..Len(tokens) :
                    tokens[n].k = "nl" /\ \A j \in 1..(n - 1) : tokens[j].k # "nl"
         IN  <<SubSeq(tokens, 1, i - 1)>> \o SplitLines(SubSeq(tokens, i + 1, Len(tokens)))
    ELSE <<tokens>>

\* line.startsWith('data: ')
StartsWithData(line) == line # <<>> /\ line[1].k = "head"

\* JSON.parse(line.slice(6)) returns: the line holds one whole payload
Parses(line) ==
    /\ Len(line) = 2
    /\ line[1].k = "head"
    /\ line[2].k = "tail"
    /\ line[1].ev = line[2].ev

\* Event streams the server emits (each is an `events` of SpecTurn)
CtxCSCE == [currentCourse |-> CSCE221, activeCourses |-> <<CSCE221>>]

StreamAsk == <<StatusEvent(0), CompleteEvent(AskCourseAnswer, EmptyContext)>>

StreamAnswer ==
    <<StatusEvent(0), StatusEvent(10), StatusEvent(20), StatusEvent(40), StatusEvent(70),
      StatusEvent(80), ChunkEvent(<<"a">>), ChunkEvent(<<"b">>),
      CompleteEvent(TextAnswer(<<"a", "b">>), CtxCSCE)>>

StreamApology ==
    <<StatusEvent(0), StatusEvent(10), StatusEvent(20), StatusEvent(40), StatusEvent(70),
      StatusEvent(80), ChunkEvent(<<"a">>), ErrorEvent(ApologyAnswer)>>

StreamRaw == <<StatusEvent(0), StatusEvent(10), ErrorEvent(RawError)>>

ServerStreams == {StreamAsk, StreamAnswer, StreamApology, StreamRaw}

\* ------------------------------------------------------------------ client
UserMessage == [content |-> [kind |-> "user", arg |-> <<>>], isUser |-> TRUE, courseCodes |-> <<>>]

\* "Whoop! We're having trouble connecting right now. ..."
ConnectTrouble ==
    [content |-> [kind |-> "connectTrouble", arg |-> <<>>], isUser |-> FALSE, courseCodes |-> <<>>]

AssistantMessage(data) ==
    [content |-> data.answer, isUser |-> FALSE, courseCodes |-> data.sessionContext.activeCourses]

\* The for loop over the lines of one read, from the client state c, up to the
\* next await (the pacing delay of a chunk) or the end of the lines.
RECURSIVE RunLines(_)
RunLines(c) ==
    IF c.lines = <<>> THEN c
    ELSE LET line == Head(c.lines)
             rest == [c EXCEPT !.lines = Tail(@)]
         IN  IF ~StartsWithData(line) THEN RunLines(rest)
             ELSE IF ~Parses(line) THEN RunLines(rest)   \* caught: console.warn
             ELSE LET data == line[1].ev
                      seen == [rest EXCEPT !.processed = Append(@, data)]
                  IN  CASE data.type = "status" -> RunLines(seen)
                        [] data.type = "chunk" ->
                             [seen EXCEPT !.acc = TextAnswer(@.arg \o data.content),
                                          !.pacing = TRUE]
                        [] data.type = "complete" ->
                             RunLines([seen EXCEPT !.acc = data.answer,
                                                   !.streaming = data.answer,
                                                   !.messages = Append(@, AssistantMessage(data)),
                                                   !.ctx = data.sessionContext])
                        \* throw new Error(data.error), inside the try around JSON.parse
                        [] data.type = "error" -> RunLines(seen)
                        [] OTHER -> RunLines(seen)

ClientState ==
    [lines |-> lines, acc |-> accumulatedResponse, streaming |-> streamingResponse,
     messages |-> messages, ctx |-> sessionContext, processed |-> processed,
     pacing |-> FALSE]

\* The loop ran from c: it waits in the pacing delay, or awaits the next read
Resume(c) ==
    LET d == RunLines(c)
    IN  /\ lines' = d.lines
        /\ accumulatedResponse' = d.acc
        /\ streamingResponse' = d.streaming
        /\ messages' = d.messages
        /\ sessionContext' = d.ctx
        /\ processed' = d.processed
        /\ cpc' = IF d.pacing THEN "pacing" ELSE "reading"

\* The finally block of handleSubmit
Finally ==
    /\ cpc' = "done"
    /\ isLoading' = FALSE
    /\ isStreaming' = FALSE
    /\ streamingResponse' = TextAnswer(<<>>)
    /\ abortController' = FALSE

handleSubmit(stream) ==
    /\ cpc \in {"idle", "done"}
    /\ submits < MaxSubmits
    /\ submits' = submits + 1
    /\ messages' = Append(messages, UserMessage)
    /\ isLoading' = TRUE
    /\ isStreaming' = TRUE
    /\ streamingResponse' = TextAnswer(<<>>)
    /\ abortController' = TRUE
    /\ aborted' = FALSE
    /\ accumulatedResponse' = TextAnswer(<<>>)
    /\ sent' = stream
    /\ wire' = Wire(stream)
    /\ lines' = <<>>
    /\ processed' = <<>>
    /\ atSubmit' = [messages |-> Len(messages) + 1, sessionContext |-> sessionContext]
    /\ stoppedEarly' = FALSE
    /\ cpc' = "fetching"
    /\ UNCHANGED sessionContext

\* fetch resolves with an ok response
FetchOk ==
    /\ cpc = "fetching"
    /\ ~aborted
    /\ cpc' = "reading"
    /\ UNCHANGED <<wire, lines, messages, sessionContext, accumulatedResponse,
                   streamingResponse, abortController, aborted, isLoading, isStreaming,
                   submits, sent, processed, atSubmit, stoppedEarly>>

\* fetch rejects, the response is not ok, or reader.read() rejects: the catch
\* block adds the connection message
RequestFails ==
    /\ cpc \in {"fetching", "reading"}
    /\ ~aborted
    /\ messages' = Append(messages, ConnectTrouble)
    /\ Finally
    /\ UNCHANGED <<wire, lines, sessionContext, accumulatedResponse, aborted,
                   submits, sent, processed, atSubmit, stoppedEarly>>

\* fetch or reader.read() rejects with AbortError: no message is added
AbortError ==
    /\ cpc \in {"fetching", "reading"}
    /\ aborted
    /\ Finally
    /\ UNCHANGED <<wire, lines, messages, sessionContext, accumulatedResponse, aborted,
                   submits, sent, processed, atSubmit, stoppedEarly>>

\* reader.read() returns the next n pieces of the stream; the loop runs on them
Read(n) ==
    /\ cpc = "reading"
    /\ ~aborted
    /\ n \in 1..Len(wire)
    /\ wire' = SubSeq(wire, n + 1, Len(wire))
    /\ Resume([ClientState EXCEPT !.lines = SplitLines(SubSeq(wire, 1, n))])
    /\ UNCHANGED <<abortController, aborted, isLoading, isStreaming, submits, sent,
                   atSubmit, stoppedEarly>>

\* reader.read() returns done
ReadDone ==
    /\ cpc = "reading"
    /\ ~aborted
    /\ wire = <<>>
    /\ Finally
    /\ UNCHANGED <<wire, lines, messages, sessionContext, accumulatedResponse, aborted,
                   submits, sent, processed, atSubmit, stoppedEarly>>

\* The pacing delay of a chunk is over: setStreamingResponse, and the loop goes on
PacingDone ==
    /\ cpc = "pacing"
    /\ Resume([ClientState EXCEPT !.streaming = accumulatedResponse])
    /\ UNCHANGED <<wire, abortController, aborted, isLoading, isStreaming, submits, sent,
                   atSubmit, stoppedEarly>>

handleStopRequest ==
    /\ cpc \in {"fetching", "reading", "pacing"}
    /\ aborted' = (aborted \/ abortController)
    /\ abortController' = FALSE
    /\ isStreaming' = FALSE
    /\ isLoading' = FALSE
    /\ streamingResponse' = TextAnswer(<<>>)
    /\ stoppedEarly' =
          (stoppedEarly \/ (abortController /\ \A i \in 1..Len(processed) : processed[i].type # "complete"))
    /\ UNCHANGED <<cpc, wire, lines, messages, sessionContext, accumulatedResponse,
                   submits, sent, processed, atSubmit>>

NextClient ==
    \/ \E stream \in ServerStreams : handleSubmit(stream) /\ UNCHANGED <<cacheVars, turnVars, scrapeVars>>
    \/ FetchOk /\ UNCHANGED <<cacheVars, turnVars, scrapeVars>>
    \/ RequestFails /\ UNCHANGED <<cacheVars, turnVars, scrapeVars>>
    \/ AbortError /\ UNCHANGED <<cacheVars, turnVars, scrapeVars>>
    \/ \E n \in 1..Len(wire) : Read(n) /\ UNCHANGED <<cacheVars, turnVars, scrapeVars>>
    \/ ReadDone /\ UNCHANGED <<cacheVars, turnVars, scrapeVars>>
    \/ PacingDone /\ UNCHANGED <<cacheVars, turnVars, scrapeVars>>
    \/ handleStopRequest /\ UNCHANGED <<cacheVars, turnVars, scrapeVars>>

SpecClient == Init /\ [][NextClient]_vars

\* ------------------------------------------------------------------ claims
\* C1: after any sequence of get and put operations the cache never holds
\* more than MAX_CACHE_SIZE entries.
C1_SizeBounded == Len(rmpCache) <= MAX_CACHE_SIZE

\* C1's case: a put of a new id into a cache that was already full.
C1_Witness ==
    /\ lastOp.op = "put"
    /\ lastOp.age = -1
    /\ lastOp.sizeBefore = MAX_CACHE_SIZE
    /\ Len(rmpCache) = MAX_CACHE_SIZE

\* ------------------------------------------------------------------ outcome of a turn
\* The existence check on each course code of the examples, and the extractor
\* on each query
KnownCourses == {CSCE221, MATH151, FAKE999}

ExistsByCourse == [c \in KnownCourses |-> tableName(c) \in ExistingTables]

CoursesByQuery == [q \in Queries |-> extractCoursesAndProfessors(q)]

CourseExists(c) == ExistsByCourse[c]

ValidOnes == SelectSeq(coursesToUse, CourseExists)

InvalidOnes == SelectSeq(coursesToUse, LAMBDA c : ~CourseExists(c))

PartiallyInvalidTurn == ValidOnes # <<>> /\ InvalidOnes # <<>>

AllInvalidTurn == coursesToUse # <<>> /\ ValidOnes = <<>>

AllValidTurn == coursesToUse # <<>> /\ InvalidOnes = <<>>

TerminalEvents == {i \in 1..Len(events) : events[i].type \in {"complete", "error"}}

EventsOfType(t) == SelectSeq(events, LAMBDA e : e.type = t)

\* The turn is over and delivered an answer and a session context
Answered ==
    /\ pc = "done"
    /\ IF req.useStreaming
       THEN events # <<>> /\ events[Len(events)].type = "complete"
       ELSE http.kind = "json"

OutcomeAnswer == IF req.useStreaming THEN events[Len(events)].answer ELSE http.answer

OutcomeContext ==
    IF req.useStreaming THEN events[Len(events)].sessionContext ELSE http.sessionContext

NoFetchNoModel ==
    /\ calls.stats = 0
    /\ calls.prof = 0
    /\ calls.scrape = 0
    /\ calls.cacheGet = 0
    /\ calls.cachePut = 0
    /\ calls.model = 0
    /\ prompts = <<>>

\* C2: a streaming request with a non-empty query emits exactly one complete or
\* error event, on every path; it is the last event, and the stream is closed
\* with it.
C2_OneTerminalEvent ==
    (pc # "idle" /\ req.useStreaming /\ req.query # <<>>) =>
        /\ Cardinality(TerminalEvents) <= 1
        /\ TerminalEvents # {} => TerminalEvents = {Len(events)}
        /\ closed <=> TerminalEvents # {}
        /\ pc = "done" <=> closed

\* C2's case: the model stream threw after a chunk was sent
C2_Witness ==
    /\ req.useStreaming
    /\ closed
    /\ "stream" \in raised
    /\ EventsOfType("chunk") # <<>>
    /\ events[Len(events)].type = "error"

\* C3: a streaming turn with valid courses whose model stream ends normally has
\* sent a status event, its chunks are the model's non-empty deltas in order,
\* their concatenation is the answer of the complete event, and there is one
\* complete event, the last one.
C3_ChunksMakeTheAnswer ==
    (pc = "done" /\ req.useStreaming /\ AllValidTurn /\ raised = {}) =>
        LET chunks == EventsOfType("chunk")
            contents == [i \in 1..Len(chunks) |-> chunks[i].content]
        IN  /\ EventsOfType("status") # <<>>
            /\ contents = SelectSeq(modelDeltas, LAMBDA d : d # <<>>)
            /\ Len(EventsOfType("complete")) = 1
            /\ events[Len(events)].type = "complete"
            /\ events[Len(events)].answer = TextAnswer(Flatten(contents))

\* C3's case: two chunks were sent and the stream ended
C3_Witness ==
    /\ pc = "done"
    /\ req.useStreaming
    /\ AllValidTurn
    /\ raised = {}
    /\ Len(EventsOfType("chunk")) = 2
    /\ Len(modelDeltas) = 2

\* C5 (as claimed): a turn with valid and invalid courses fetches statistics
\* and reviews for the valid ones, produces an answer from them with the model
\* and returns the valid courses as activeCourses.
C5_PartialProceeds ==
    (Answered /\ PartiallyInvalidTurn) =>
        /\ calls.stats = Len(ValidOnes)
        /\ calls.model = 1
        /\ OutcomeContext.activeCourses = ValidOnes

\* C6: a turn with valid and invalid courses never fetches and never calls the
\* model; it ends with one message naming the dropped courses and a context of
\* the valid courses, the first of them current.
C6_PartiallyInvalidEnds ==
    PartiallyInvalidTurn =>
        /\ NoFetchNoModel
        /\ pc \in {"checkConnect", "checkQuery", "done"}
        /\ (pc = "done" /\ "exists" \notin raised) =>
              /\ Answered
              /\ OutcomeAnswer = PartialAnswer(JoinComma(InvalidOnes))
              /\ OutcomeContext = [currentCourse |-> ValidOnes[1], activeCourses |-> ValidOnes]
              /\ req.useStreaming => Len(EventsOfType("complete")) = 1

\* C6's case: the follow-up turn on a context whose first course is invalid
C6_Witness ==
    /\ Answered
    /\ PartiallyInvalidTurn
    /\ req.useStreaming
    /\ OutcomeContext.currentCourse = MATH151
    /\ coursesToUse[1] = FAKE999

\* C7: a turn whose courses all fail the existence check makes no statistics
\* query, professor lookup, scrape, cache access or model call; it answers with
\* the no-data message naming the courses and the empty session context.
C7_AllInvalidEnds ==
    AllInvalidTurn =>
        /\ NoFetchNoModel
        /\ pc \in {"checkConnect", "checkQuery", "done"}
        /\ (pc = "done" /\ "exists" \notin raised) =>
              /\ Answered
              /\ OutcomeAnswer = NoDataAnswer(JoinComma(coursesToUse))
              /\ OutcomeContext = EmptyContext

\* C7's case: the request carried a context with active courses
C7_Witness ==
    /\ Answered
    /\ AllInvalidTurn
    /\ req.sessionContext.activeCourses # <<>>
    /\ OutcomeAnswer.kind = "noData"

\* A request with a query that names no course and a context without active courses
NoCourseTurn ==
    /\ pc # "idle"
    /\ req.query # <<>>
    /\ req.sessionContext.activeCourses = <<>>
    /\ CoursesByQuery[req.query] = <<>>

\* C8: a query without a course code on a context without active courses is
\* answered by the request for a course code and the empty session context,
\* with no database query, scrape or model call.
C8_NoCourseEnds ==
    NoCourseTurn =>
        /\ Answered
        /\ OutcomeAnswer = AskCourseAnswer
        /\ OutcomeContext = EmptyContext
        /\ calls = NoCalls
        /\ prompts = <<>>

\* C8's case: the second turn of a conversation, streaming, still without a
\* course: the stream is the first status event and the complete event
C8_Witness ==
    /\ NoCourseTurn
    /\ req.useStreaming
    /\ turn = 2
    /\ Len(events) = 2

\* The exceptions that leave fetchCourseInfo, fetchProfInfo or the model call,
\* and those absorbed where they arise
Escaping == {"statsConnect", "profConnect", "model", "stream"}

Absorbed == {"statsQuery", "profQuery", "scrape"}

ApologyOutcome ==
    /\ http.status = 200
    /\ IF req.useStreaming
       THEN /\ Cardinality(TerminalEvents) = 1
            /\ events[Len(events)] = ErrorEvent(ApologyAnswer)
       ELSE http.kind = "json" /\ http.answer = ApologyAnswer

\* C9 (as claimed): any exception raised while fetching or generating makes
\* the turn end with the fixed apologetic message.
C9_AnyExceptionApologises ==
    (pc = "done" /\ raised \cap (Escaping \cup Absorbed) # {}) => ApologyOutcome

\* C9 (amended): an exception that leaves the fetch functions or the model call
\* ends the turn with the fixed apologetic message in a normal response, the
\* model being called at most once; an exception absorbed inside a fetch
\* function lets the turn go on to the model's answer.
C9_EscapingExceptionApologises ==
    /\ (pc = "done" /\ raised \cap Escaping # {}) => ApologyOutcome
    /\ calls.model <= 1
    /\ calls.stats <= Len(coursesToUse)
    /\ calls.prof <= Len(coursesToUse)
    /\ (pc = "done" /\ raised # {} /\ raised \subseteq Absorbed) =>
          Answered /\ OutcomeAnswer.kind = "text"

\* C9's case: the model stream threw while it was consumed
C9_Witness ==
    /\ pc = "done"
    /\ "stream" \in raised
    /\ modelDeltas # <<>>
    /\ ApologyOutcome

\* C10 (as claimed): a request with a query never ends in a non-2xx response
\* or in an event carrying the raw exception message.
C10_NoRawErrorForWellFormedRequest ==
    (pc = "done" /\ req.query # <<>>) =>
        /\ http.status = 200
        /\ \A i \in 1..Len(events) : events[i].answer # RawError

\* C4 (as claimed): once the user has stopped a turn before a complete event
\* was handled, the conversation gets no assistant message for that turn and
\* the session context stays what it was when the turn began.
C4_StopCommitsNothing ==
    stoppedEarly =>
        /\ Len(messages) = atSubmit.messages
        /\ sessionContext = atSubmit.sessionContext

\* C11 (as claimed): when the statistics fetch of a course fails on the
\* database, at the connection or at the query, and nothing else fails, the
\* turn still assembles the prompt, calls the model and answers with its text.
C11_StatsFailureDegrades ==
    (pc = "done" /\ AllValidTurn /\ raised # {}
        /\ raised \subseteq {"statsConnect", "statsQuery"}) =>
        /\ Answered
        /\ OutcomeAnswer.kind = "text"
        /\ calls.model = 1
        /\ \A i \in 1..Len(statTask) :
              statTask[i].st = "rejected" => prompts[1].courseData[i] = EmptyCourseInfo

\* The turn's stream was read to its end and no request of the conversation failed
StreamReadThrough ==
    /\ cpc = "done"
    /\ ~aborted
    /\ wire = <<>>
    /\ \A i \in 1..Len(messages) : messages[i] # ConnectTrouble

\* C12 (as claimed): once the client has handled the server's error event and
\* the stream has ended, the conversation holds exactly one new assistant
\* message for the turn, the apologetic one.
C12_ErrorEventShowsApology ==
    (StreamReadThrough /\ \E i \in 1..Len(processed) : processed[i] = ErrorEvent(ApologyAnswer)) =>
        /\ Len(messages) = atSubmit.messages + 1
        /\ messages[Len(messages)].content = ApologyAnswer

\* ------------------------------------------------------------------ the cache, operation by operation
\* The entries of m other than that of id, in their order
Others(m, id) == SelectSeq(m, LAMBDA e : e.id # id)

\* The entry of id is the last one of the Map: the last to be evicted
IsMostRecent(m, id) == m # <<>> /\ m[Len(m)].id = id

\* C13 (as claimed): after a put on an id that was already cached, the entry
\* is in the most-recently-used position and its age is zero.
C13_OverwritePromotes ==
    (lastOp.op = "put" /\ lastOp.age >= 0) =>
        /\ IsMostRecent(rmpCache, lastOp.id)
        /\ AgeOf(rmpCache, lastOp.id, now) = 0

\* C14 (as claimed): no stored entry is older than CACHE_DURATION.
C14_NoStoredEntryPastTTL ==
    \A i \in 1..Len(rmpCache) : now - rmpCache[i].timestamp <= CACHE_DURATION

\* C14 (amended): a get returns only an entry younger than CACHE_DURATION, and
\* after a get of an id no entry of that id as old as CACHE_DURATION is stored;
\* entries that are not looked up stay stored past it.
C14_NoExpiredEntryServed ==
    lastOp.op = "get" =>
        /\ lastOp.ret # Null => (lastOp.age >= 0 /\ lastOp.age < CACHE_DURATION)
        /\ MapHas(rmpCache, lastOp.id) => AgeOf(rmpCache, lastOp.id, now) < CACHE_DURATION

\* C14's case: a get deleted the expired entry of its id while another entry,
\* older than CACHE_DURATION, is still stored
C14_Witness ==
    /\ lastOp.op = "get"
    /\ lastOp.ret = Null
    /\ lastOp.age >= CACHE_DURATION
    /\ Len(rmpCache) = lastOp.sizeBefore - 1
    /\ \E i \in 1..Len(rmpCache) : now - rmpCache[i].timestamp > CACHE_DURATION

\* C15: a get that returns a record found an entry of its id not older than
\* CACHE_DURATION, returns that entry's record and leaves the entry, unchanged,
\* in the last position, the other entries keeping their order; a get that
\* returns absent found no entry or one that had reached CACHE_DURATION, and
\* leaves the other entries as they were.
C15_GetHitPromotes ==
    [][lastOp'.op = "get" =>
          LET id == lastOp'.id
          IN  /\ Others(rmpCache', id) = Others(rmpCache, id)
              /\ IF lastOp'.ret # Null
                 THEN /\ MapHas(rmpCache, id)
                      /\ now - MapGet(rmpCache, id).timestamp <= CACHE_DURATION
                      /\ lastOp'.ret = MapGet(rmpCache, id).data
                      /\ IsMostRecent(rmpCache', id)
                      /\ MapGet(rmpCache', id) = MapGet(rmpCache, id)
                 ELSE /\ ~MapHas(rmpCache, id) \/ AgeOf(rmpCache, id, now) >= CACHE_DURATION
                      /\ ~MapHas(rmpCache', id)]_vars

\* C15's case: a get on a full cache returned the record of its id
C15_Witness ==
    /\ lastOp.op = "get"
    /\ lastOp.ret = "rec1"
    /\ lastOp.sizeBefore = MAX_CACHE_SIZE
    /\ Len(rmpCache) = MAX_CACHE_SIZE
    /\ IsMostRecent(rmpCache, lastOp.id)

\* The id an LRU cache would evict: the cached id whose last put or get hit is oldest
LeastRecentlyUsed == lruOrder[1]

\* C16 (as claimed): a put of a new id into a cache of MAX_CACHE_SIZE entries
\* evicts exactly one entry, the least recently used one, and leaves
\* MAX_CACHE_SIZE entries.
C16_EvictsLeastRecentlyUsed ==
    [][(lastOp'.op = "put" /\ lastOp'.age = -1 /\ Len(rmpCache) = MAX_CACHE_SIZE) =>
          /\ Len(rmpCache') = MAX_CACHE_SIZE
          /\ MapHas(rmpCache', lastOp'.id)
          /\ ~MapHas(rmpCache', LeastRecentlyUsed)
          /\ Others(rmpCache', lastOp'.id) = Others(rmpCache, LeastRecentlyUsed)]_vars

\* C17: a get of an id whose entry was stored more than CACHE_DURATION ago
\* (and not overwritten since) returns absent and removes that entry.
C17_ExpiredEntryAbsentAndRemoved ==
    (lastOp.op = "get" /\ lastOp.age > CACHE_DURATION) =>
        /\ lastOp.ret = Null
        /\ ~MapHas(rmpCache, lastOp.id)
        /\ Len(rmpCache) = lastOp.sizeBefore - 1

C17_Witness ==
    /\ lastOp.op = "get" /\ lastOp.age > CACHE_DURATION
    /\ lastOp.ret = Null /\ ~MapHas(rmpCache, lastOp.id)
    /\ lastOp.sizeBefore = MAX_CACHE_SIZE

\* C18: a put of (id, record) followed immediately by a get of the same id
\* returns exactly that record, error markers included, whatever the cache
\* held before the put.
C18_PutThenGetReturnsRecord ==
    [][(lastOp.op = "put" /\ lastOp'.op = "get" /\ lastOp'.id = lastOp.id) =>
          /\ lastOp'.ret = lastOp.ret
          /\ lastOp'.ret # Null
          /\ MapGet(rmpCache', lastOp.id).data = lastOp.ret]_vars

C18_Witness ==
    /\ lastOp.op = "get" /\ lastOp.ret = "err" /\ lastOp.age = 0
    /\ lastOp.sizeBefore = MAX_CACHE_SIZE
    /\ IsMostRecent(rmpCache, lastOp.id)

\* C19 (as claimed): two consecutive gets of the same id, with no put between
\* them, return the same data, and the second leaves the order of the other
\* keys as it was.
C19_RepeatedGetIdempotent ==
    [][(lastOp'.op = "get" /\ lastGet.id = lastOp'.id) =>
          /\ lastOp'.ret = lastGet.ret
          /\ Others(rmpCache', lastOp'.id) = Others(rmpCache, lastOp'.id)]_vars

\* C19 (amended): two consecutive gets of the same id, with no put between
\* them, return the same data unless the entry reached its TTL between the two
\* calls, and then the second returns absent; in both cases the second get
\* leaves the order of the other keys as it was, and a second get at the same
\* clock reading leaves the whole cache as it was.
C19_RepeatedGetIdempotentWithinTTL ==
    [][(lastOp'.op = "get" /\ lastGet.id = lastOp'.id) =>
          /\ IF lastGet.ret # Null /\ lastOp'.age >= CACHE_DURATION
             THEN lastOp'.ret = Null
             ELSE lastOp'.ret = lastGet.ret
          /\ Others(rmpCache', lastOp'.id) = Others(rmpCache, lastOp'.id)
          /\ lastOp.op = "get" => rmpCache' = rmpCache]_vars

C19_Witness ==
    /\ lastOp.op = "get" /\ lastGet.repeat
    /\ lastOp.ret # Null
    /\ lastOp.sizeBefore = MAX_CACHE_SIZE
    /\ IsMostRecent(rmpCache, lastOp.id)

\* The ids of the links of a list of URLs
IdsOf(urls) == {profIdOf(urls[k]) : k \in 1..Len(urls)}

\* The id has a fresh error marker stored in the Map m at time t
ErrorMarkerStored(m, id, t) ==
    MapHas(m, id) /\ MapGet(m, id).data = "err" /\ IsFresh(MapGet(m, id), t)

\* C20: a failed scrape of a professor id stores an error marker for the id in
\* the cache, and a later lookup of the id, while the marker is stored and
\* within its TTL, returns the marker and asks the review site for nothing.
C20_FailedScrapeCachedAndReused ==
    [][\A i \in 1..Len(profTask) :
          /\ (i <= Len(profTask') /\ profTask[i].st = "scrape" /\ profTask'[i].st = "done") =>
                \A id \in DOMAIN profTask'[i].results :
                   (id \in IdsOf(profTask[i].toScrape) /\ profTask'[i].results[id] = "err")
                      => ErrorMarkerStored(rmpCache', id, now')
          /\ (i <= Len(profTask') /\ profTask[i].st = "query" /\ profTask'[i].st # "query"
                 /\ calls'.cacheGet > calls.cacheGet) =>
                \A id \in IdsOf(LinksOf(statTask[i].info.overall)) :
                   ErrorMarkerStored(rmpCache, id, now) =>
                      /\ id \notin IdsOf(profTask'[i].toScrape)
                      /\ id \in DOMAIN profTask'[i].results
                      /\ profTask'[i].results[id] = "err"
                      /\ calls'.scrape = calls.scrape]_vars

C20_Witness ==
    /\ turn > 1 /\ calls.cacheGet > 0 /\ calls.scrape = 0
    /\ \E i \in 1..Len(profTask) :
          /\ profTask[i].st = "done"
          /\ \E id \in DOMAIN profTask[i].results : profTask[i].results[id] = "err"
    /\ \E k \in 1..Len(rmpCache) : rmpCache[k].data = "err"

\* The professor ids the courses of this turn link to
TurnProfIds == UNION {IdsOf(LinksOf(statTask[i].info.overall)) : i \in 1..Len(statTask)}

\* Some id was scraped more than once in this turn
RedundantScrape == calls.scrape > Cardinality(TurnProfIds)

\* Size within the maximum, each id stored once, and the Map's order the order
\* of the last hit or put of each id
BookkeepingIntact ==
    /\ Len(rmpCache) <= MAX_CACHE_SIZE
    /\ \A i, j \in 1..Len(rmpCache) : rmpCache[i].id = rmpCache[j].id => i = j
    /\ MapKeys(rmpCache) = lruOrder

\* C21 (as claimed): two concurrent lookups of the same uncached professor id
\* do not both scrape it, or at least the cache's bookkeeping stays intact:
\* size at most MAX_CACHE_SIZE, each id stored once, recency order as accessed.
C21_ConcurrentLookupsScrapeOnceOrKeepOrder ==
    ~RedundantScrape \/ BookkeepingIntact

\* A course code stands at position i of the upper-cased text u with k letters:
\* k letters, then at most one separator, then three digits
DigitsStart(u, i, k) ==
    IF i + k <= Len(u) /\ u[i + k] \in DigitChars THEN i + k ELSE i + k + 1

OccursAt(u, i, k) ==
    LET d == DigitsStart(u, i, k)
    IN  /\ i >= 1 /\ d + 2 <= Len(u)
        /\ \A j \in i..(i + k - 1) : u[j] \in Range(UpperLetters)
        /\ d = i + k \/ IsSeparator(u[i + k])
        /\ \A j \in d..(d + 2) : u[j] \in DigitChars

HasCode(u, i) == \E k \in 2..4 : OccursAt(u, i, k)

\* The code standing at i, normalized to LETTERS SPACE DIGITS
CodeAt(u, i) ==
    LET k == CHOOSE x \in 2..4 : OccursAt(u, i, x)
        d == DigitsStart(u, i, k)
    IN  SubSeq(u, i, i + k - 1) \o <<" ">> \o SubSeq(u, d, d + 2)

\* Where the codes of u begin, reading left to right: a position that has a
\* code and does not continue the letters of a code begun one position earlier
CodeStarts(u) == {i \in 1..Len(u) : HasCode(u, i) /\ ~(i > 1 /\ HasCode(u, i - 1))}

FirstStart(u, code) ==
    CHOOSE i \in CodeStarts(u) :
        CodeAt(u, i) = code /\ \A j \in CodeStarts(u) : CodeAt(u, j) = code => i <= j

FollowUpReceived == pc = "idle" /\ pc' # "idle" /\ req'.query # <<>> /\ req'.sessionContext = heldContext

\* C23: when the caller passes on the session context it was returned, a query
\* without a course code is answered for the incoming activeCourses, in their
\* order; a query with a course code is answered for the query's codes only;
\* and the context returned by a turn that reached the model is that of the
\* courses resolved for the turn.
C23_ContextCarriesFollowUps ==
    [][/\ FollowUpReceived =>
             LET inQuery == CoursesByQuery[req'.query]
                 resolved == IF inQuery # <<>> THEN inQuery ELSE heldContext.activeCourses
             IN  IF resolved = <<>>
                 THEN pc' = "done" /\ calls'.exists = 0 /\ coursesToUse' = <<>>
                 ELSE pc' = "checkConnect" /\ coursesToUse' = resolved
       /\ (pc' = "done" /\ calls'.model >= 1 /\ Answered') =>
             /\ OutcomeContext'.activeCourses = coursesToUse'
             /\ OutcomeContext'.currentCourse = coursesToUse'[1]
             /\ heldContext' = OutcomeContext']_vars

\* C23's case: a second turn without a course code, answered by the model for
\* the two courses of the first turn
C23_Witness ==
    /\ turn = 2 /\ Answered /\ OutcomeAnswer.kind = "text"
    /\ req.query = <<"h", "i">>
    /\ req.sessionContext.activeCourses = <<CSCE221, MATH151>>
    /\ coursesToUse = <<CSCE221, MATH151>>
    /\ heldContext = [currentCourse |-> CSCE221, activeCourses |-> <<CSCE221, MATH151>>]

\* The requests a step sends
Started == inFlight' \ inFlight

\* C24: within one call of the review fetcher at most CONCURRENCY_LIMIT
\* requests are in flight, and the requests of a chunk are sent only when every
\* request of the chunk before has settled and, after the first chunk, the
\* delay between chunks is over.
C24_BoundedBatches ==
    [][/\ Cardinality(inFlight') <= CONCURRENCY_LIMIT
       /\ Started # {} =>
             /\ inFlight = {}
             /\ Started = ChunkPositions(Len(urlsToScrape'), chunkIndex')
             /\ chunkIndex' > 0 =>
                   /\ scrapePc = "delay"
                   /\ \A k \in 1..(chunkIndex' * CONCURRENCY_LIMIT) :
                         profIdOf(urlsToScrape[k]) \in DOMAIN scrapeResults]_vars

\* C24's case: the single request of a second chunk is in flight
C24_Witness ==
    /\ scrapePc = "batch"
    /\ chunkIndex = 1
    /\ inFlight = {CONCURRENCY_LIMIT + 1}
    /\ Len(urlsToScrape) = CONCURRENCY_LIMIT + 1
    /\ failingIds # {}

\* C25: whatever ids fail, the call returns a map with one entry for the id of
\* every non-empty URL: the cached record of a hit, the scraped record of a
\* success, the error marker of a failure; no failure changes another id's
\* entry or keeps a later chunk from running.
C25_EveryIdAnswered ==
    [][/\ invocations' > invocations =>
             \A id \in DOMAIN cacheHits' :
                MapHas(rmpCache, id) /\ cacheHits'[id] = MapGet(rmpCache, id).data
       /\ scrapePc' = "returned" =>
             /\ DOMAIN scrapeResults' = UrlIds(scrapeUrls')
             /\ \A id \in UrlIds(scrapeUrls') :
                   scrapeResults'[id] =
                      IF id \in DOMAIN cacheHits' THEN cacheHits'[id]
                      ELSE IF id \in failingIds' THEN "err" ELSE "rec1"
             /\ chunkIndex' = NumChunks(Len(urlsToScrape')) - 1 \/ urlsToScrape' = <<>>]_vars

\* C25's case: a second call returns with a hit, and with a failure in its
\* first chunk and a success in its second
C25_Witness ==
    /\ scrapePc = "returned"
    /\ invocations = 2
    /\ DOMAIN cacheHits # {}
    /\ chunkIndex = 1
    /\ \E k \in 1..CONCURRENCY_LIMIT : profIdOf(urlsToScrape[k]) \in failingIds
    /\ scrapeResults[profIdOf(urlsToScrape[CONCURRENCY_LIMIT + 1])] = "rec1"

\* C26: a turn calls the model at most once, with one prompt, and only when the
\* statistics fetch and the review fetch of every resolved course are over;
\* the statistics fetches are all started together.
C26_OnePromptAfterAllFetches ==
    /\ calls.model <= 1
    /\ Len(prompts) = calls.model
    /\ statTask # <<>> => (Len(statTask) = Len(coursesToUse) /\ calls.stats = Len(coursesToUse))
    /\ calls.model = 1 =>
          /\ Len(statTask) = Len(coursesToUse)
          /\ Len(profTask) = Len(coursesToUse)
          /\ \A i \in 1..Len(coursesToUse) : statTask[i].st = "done" /\ profTask[i].st = "done"
          /\ prompts[1].courseData = [i \in 1..Len(statTask) |-> statTask[i].info]
          /\ prompts[1].profData = [i \in 1..Len(profTask) |-> profTask[i].results]

\* C26's case: the model was called in a turn on two courses after three scrapes
C26_Witness ==
    /\ pc = "model"
    /\ calls.model = 1
    /\ Len(coursesToUse) = 2
    /\ calls.stats = 2 /\ calls.prof = 2 /\ calls.scrape = 3

\* C27 (as claimed): a put of an id that is already stored removes the entry
\* of no other id, also when the cache holds MAX_CACHE_SIZE entries.
C27_OverwriteKeepsOthers ==
    [][(lastOp'.op = "put" /\ lastOp'.age >= 0) =>
          \A k \in 1..Len(rmpCache) :
             rmpCache[k].id # lastOp'.id => MapHas(rmpCache', rmpCache[k].id)]_vars

\* The request of this turn repeated that of the turn before in the other
\* mode, and the database, the review site and the model behaved the same
SameTurnOtherMode ==
    /\ turn = 2 /\ pc = "done" /\ Quiescent
    /\ req.query # <<>>
    /\ req.query = lastTurn.query
    /\ req.sessionContext = lastTurn.sessionContext
    /\ req.useStreaming # lastTurn.useStreaming
    /\ Behaviour = lastTurn.behaviour

\* C28 (as claimed): for the same request and the same behaviour of the
\* collaborators, the terminal streaming event carries the answer and the
\* session context of the non-streaming response, on every path.
C28_ModesDeliverTheSame ==
    SameTurnOtherMode => Delivered = lastTurn.delivered

\* The complete events the server emitted in this turn
CompleteSent == {i \in 1..Len(sent) : sent[i].type = "complete"}

\* C29 (as claimed): however the reads cut the byte stream, once it is read to
\* its end the client has handled every event the server emitted, once each
\* and in the order sent, and for a complete event it has appended the answer
\* and adopted the session context.
C29_EveryEventHandledOnceInOrder ==
    StreamReadThrough =>
        /\ processed = sent
        /\ \A i \in CompleteSent :
              /\ messages[Len(messages)] = AssistantMessage(sent[i])
              /\ sessionContext = sent[i].sessionContext

\* The session contexts this turn has returned or emitted
ContextsOut ==
    {events[i].sessionContext : i \in {j \in 1..Len(events) : events[j].type = "complete"}}
        \cup (IF http.kind = "json" THEN {http.sessionContext} ELSE {})

\* C30: in every session context a turn returns or emits, in both modes,
\* currentCourse is null exactly when activeCourses is empty and is otherwise
\* the first of activeCourses, and every active course is one of the turn's
\* courses that the existence check of this turn found.
C30_ContextWellFormed ==
    \A ctx \in ContextsOut :
        /\ (ctx.currentCourse = NoCourse) <=> (ctx.activeCourses = <<>>)
        /\ ctx.activeCourses # <<>> => ctx.currentCourse = ctx.activeCourses[1]
        /\ \A k \in 1..Len(ctx.activeCourses) :
              /\ calls.exists = 1
              /\ "exists" \notin raised
              /\ ctx.activeCourses[k] \in Range(coursesToUse)
              /\ checkMultipleCoursesExist(coursesToUse)[ctx.activeCourses[k]]

\* A turn on two existing courses ended in the apology of the non-streaming
\* path, which carries both
C30_Witness ==
    /\ pc = "done"
    /\ http.kind = "json"
    /\ http.answer = ApologyAnswer
    /\ Len(http.sessionContext.activeCourses) = 2
    /\ http.sessionContext.currentCourse = CSCE221

====
